---- MODULE Spec2Model ----
(***************************************************************************)
(* Model of the simon-game-app backend: the room registry                  *)
(* (src/backend/services/gameService.ts), the socket gateway with its      *)
(* disconnect timers (src/backend/websocket/gameHandler.ts) and the Simon  *)
(* round engine (src/backend/utils/simonLogic.ts).                         *)
(***************************************************************************)
EXTENDS Integers, Sequences, FiniteSets, TLC

(***************************************************************************)
(* Bounds of the model.                                                    *)
(***************************************************************************)
MaxPlayerIds == 2
MaxRegistryIds == 3
MaxSockets == 2
MaxTimers == 2
MaxTime == 2
MaxEnginePlayers == 2
MaxRound == 3
MaxTimestamp == 2
NumColors == 2
MaxScore == 1
MaxInputIndex == 1
MaxMemberIds == 5
MaxRaceRound == 2

\* the game codes generateGameCode may draw; the gateway runs draw the first
Codes == {"AAAA", "BBBB"}
GatewayCodes == {"AAAA"}
PlayerIds == 1..MaxPlayerIds
RegistryIds == 1..MaxRegistryIds
SocketIds == 1..MaxSockets
TimerIds == 1..MaxTimers

\* null for a player id, a socket id and a game code
NoPlayer == 0
NoSocket == 0
NoCode == "none"

(***************************************************************************)
(* PLATFORM_CONSTANTS (shared/types), in clock ticks.                      *)
(***************************************************************************)
MAX_PLAYERS == 4
ROOM_MAX_AGE_MS == 1
DISCONNECT_GRACE_MS == 0

VARIABLES
    rooms,               \* GameService.rooms: game code -> GameRoom
    sockets,             \* the socket.io connections and their session fields
    timers,              \* the pending setTimeout handles of handleDisconnect
    disconnectTimeouts,  \* gameHandler's map "gameCode:playerId" -> handle
    now,                 \* the wall clock read by new Date()
    last,                \* the last operation: its name, result and emitted events
    game,                \* the SimonGameState of the round engine
    decrementMs,         \* TIMEOUT_DECREMENT_MS of the game's difficulty preset
    result,              \* the last processRoundSubmissions: input, output
    roundAnswers,        \* gameHandler's map game code -> PlayerAnswer[]
    redis                \* the Redis client: whether its commands succeed,
                         \* and the keys once the issued commands are applied

gateway == <<rooms, sockets, timers, disconnectTimeouts, now, last,
             roundAnswers, redis>>
engine == <<game, decrementMs, result>>
vars == <<rooms, sockets, timers, disconnectTimeouts, now, last,
          game, decrementMs, result, roundAnswers, redis>>

(***************************************************************************)
(* Helpers on sequences and maps.                                          *)
(***************************************************************************)
RemoveAt(seq, i) ==
    SubSeq(seq, 1, i - 1) \o SubSeq(seq, i + 1, Len(seq))

MapDelete(m, k) ==
    [x \in (DOMAIN m) \ {k} |-> m[x]]

MapSet(m, k, v) ==
    [x \in (DOMAIN m) \cup {k} |-> IF x = k THEN v ELSE m[x]]

\* a boolean result, as recorded in the trace of the last operation
Bool(b) ==
    IF b THEN "true" ELSE "false"

MinOf(S) ==
    CHOOSE x \in S : \A y \in S : x <= y

\* Array.prototype.findIndex, 1-based, 0 for "not found"
findIndex(players, playerId) ==
    IF \E i \in 1..Len(players) : players[i].id = playerId
    THEN MinOf({i \in 1..Len(players) : players[i].id = playerId})
    ELSE 0

\* the room exists: the player is not looked up
HasRoom(rs, gameCode, playerId) ==
    gameCode \in DOMAIN rs

HasPlayer(rs, gameCode, playerId) ==
    /\ gameCode \in DOMAIN rs
    /\ findIndex(rs[gameCode].players, playerId) # 0

(***************************************************************************)
(* GameService (src/backend/services/gameService.ts).  Every operation is  *)
(* a function of the room map; it yields the new map and the return value. *)
(***************************************************************************)
PlayerIdsOf(room) ==
    {room.players[i].id : i \in 1..Len(room.players)}

\* ids some part of the system still refers to: uuidv4() never yields one
UsedIds ==
    UNION {PlayerIdsOf(rooms[c]) : c \in DOMAIN rooms}
    \cup {sockets[s].playerId : s \in SocketIds}
    \cup {timers[t].playerId : t \in TimerIds}
    \cup {k[2] : k \in DOMAIN disconnectTimeouts}

uuidv4(ids) ==
    MinOf(ids \ UsedIds)

NewPlayer(id, isHost, time) ==
    [id |-> id, isHost |-> isHost, socketId |-> NoSocket,
     connected |-> FALSE, lastActivity |-> time]

\* gameState: null, no game
null == [gameType |-> "null", round |-> 0, phase |-> "null"]

createRoom(rs, gameCode, id, time) ==
    MapSet(rs, gameCode,
           [players |-> <<NewPlayer(id, TRUE, time)>>,
            status |-> "waiting",
            createdAt |-> time,
            gameState |-> null])

\* a join that does not look at the status of the room
joinRoomAnyStatus(rs, gameCode, id, time) ==
    IF gameCode \notin DOMAIN rs
    THEN [rooms |-> rs, ret |-> "Room not found"]
    ELSE IF Len(rs[gameCode].players) >= MAX_PLAYERS
    THEN [rooms |-> rs, ret |-> "Room is full"]
    ELSE [rooms |-> [rs EXCEPT ![gameCode].players =
                         Append(@, NewPlayer(id, FALSE, time))],
          ret |-> "ok"]

\* a join that puts the new player first in the list
joinRoomAtFront(rs, gameCode, id, time) ==
    IF gameCode \notin DOMAIN rs
    THEN [rooms |-> rs, ret |-> "Room not found"]
    ELSE IF rs[gameCode].status # "waiting"
    THEN [rooms |-> rs, ret |-> "Game already in progress"]
    ELSE IF Len(rs[gameCode].players) >= MAX_PLAYERS
    THEN [rooms |-> rs, ret |-> "Room is full"]
    ELSE [rooms |-> [rs EXCEPT ![gameCode].players =
                         <<NewPlayer(id, FALSE, time)>> \o @],
          ret |-> "ok"]

\* a join that never finds the room full
joinRoomNoLimit(rs, gameCode, id, time) ==
    IF gameCode \notin DOMAIN rs
    THEN [rooms |-> rs, ret |-> "Room not found"]
    ELSE IF rs[gameCode].status # "waiting"
    THEN [rooms |-> rs, ret |-> "Game already in progress"]
    ELSE [rooms |-> [rs EXCEPT ![gameCode].players =
                         Append(@, NewPlayer(id, FALSE, time))],
          ret |-> "ok"]

joinRoom(rs, gameCode, id, time) ==
    IF gameCode \notin DOMAIN rs
    THEN [rooms |-> rs, ret |-> "Room not found"]
    ELSE IF rs[gameCode].status # "waiting"
    THEN [rooms |-> rs, ret |-> "Game already in progress"]
    ELSE IF Len(rs[gameCode].players) >= MAX_PLAYERS
    THEN [rooms |-> rs, ret |-> "Room is full"]
    ELSE [rooms |-> [rs EXCEPT ![gameCode].players =
                         Append(@, NewPlayer(id, FALSE, time))],
          ret |-> "ok"]

\* a status update that is never written to the room
updateRoomStatusDropped(rs, gameCode, status) ==
    rs

updateRoomStatus(rs, gameCode, status) ==
    IF gameCode \notin DOMAIN rs
    THEN rs
    ELSE [rs EXCEPT ![gameCode].status = status]

updateGameState(rs, gameCode, gameState) ==
    IF gameCode \notin DOMAIN rs
    THEN rs
    ELSE [rs EXCEPT ![gameCode].gameState = gameState]

\* the state of a game that has just begun: its first round
initializeColorRaceGame(players) ==
    [gameType |-> "color_race", round |-> 1, phase |-> "playing"]

\* the states a processed round may yield: the next round, or the end of
\* the game, which comes at the latest with round MaxRaceRound
processRound(gameState, answers) ==
    {[gameState EXCEPT !.phase = "finished"]}
    \cup IF gameState.round < MaxRaceRound
         THEN {[gameState EXCEPT !.round = @ + 1]}
         ELSE {}

\* updateSocketId that records the socket without marking the player
\* connected
updateSocketIdOnly(rs, gameCode, playerId, socketId, time) ==
    IF gameCode \notin DOMAIN rs
    THEN rs
    ELSE LET idx == findIndex(rs[gameCode].players, playerId)
         IN  IF idx = 0
             THEN rs
             ELSE [rs EXCEPT ![gameCode].players[idx] =
                       [@ EXCEPT !.socketId = socketId,
                                 !.lastActivity = time]]

updateSocketId(rs, gameCode, playerId, socketId, time) ==
    IF gameCode \notin DOMAIN rs
    THEN rs
    ELSE LET idx == findIndex(rs[gameCode].players, playerId)
         IN  IF idx = 0
             THEN rs
             ELSE [rs EXCEPT ![gameCode].players[idx] =
                       [@ EXCEPT !.socketId = socketId,
                                 !.connected = TRUE,
                                 !.lastActivity = time]]

markPlayerDisconnected(rs, gameCode, playerId) ==
    IF gameCode \notin DOMAIN rs
    THEN rs
    ELSE LET idx == findIndex(rs[gameCode].players, playerId)
         IN  IF idx = 0
             THEN rs
             ELSE [rs EXCEPT ![gameCode].players[idx] =
                       [@ EXCEPT !.connected = FALSE,
                                 !.socketId = NoSocket]]

\* removePlayer without the check of findIndex's -1: splice(-1, 1) takes
\* the last player out
removePlayerWithoutLookupCheck(rs, gameCode, playerId) ==
    IF gameCode \notin DOMAIN rs
    THEN [rooms |-> rs, ret |-> FALSE]
    ELSE LET room == rs[gameCode]
             found == findIndex(room.players, playerId)
             playerIndex == IF found = 0 THEN Len(room.players) ELSE found
             rest == RemoveAt(room.players, playerIndex)
         IN  IF Len(rest) = 0
             THEN [rooms |-> MapDelete(rs, gameCode), ret |-> TRUE]
             ELSE [rooms |->
                      [rs EXCEPT ![gameCode].players =
                          IF room.players[playerIndex].isHost
                          THEN [rest EXCEPT ![1].isHost = TRUE]
                          ELSE rest],
                   ret |-> TRUE]

\* removePlayer handing the host role to the player who joined last
removePlayerHostToLast(rs, gameCode, playerId) ==
    IF ~HasPlayer(rs, gameCode, playerId)
    THEN [rooms |-> rs, ret |-> FALSE]
    ELSE LET idx == findIndex(rs[gameCode].players, playerId)
             rest == RemoveAt(rs[gameCode].players, idx)
         IN  IF Len(rest) = 0
             THEN [rooms |-> MapDelete(rs, gameCode), ret |-> TRUE]
             ELSE [rooms |->
                      [rs EXCEPT ![gameCode].players =
                          IF rs[gameCode].players[idx].isHost
                          THEN [rest EXCEPT ![Len(rest)].isHost = TRUE]
                          ELSE rest],
                   ret |-> TRUE]

\* removePlayer without the transfer of the host role
removePlayerNoHostTransfer(rs, gameCode, playerId) ==
    IF ~HasPlayer(rs, gameCode, playerId)
    THEN [rooms |-> rs, ret |-> FALSE]
    ELSE LET rest == RemoveAt(rs[gameCode].players,
                              findIndex(rs[gameCode].players, playerId))
         IN  IF Len(rest) = 0
             THEN [rooms |-> MapDelete(rs, gameCode), ret |-> TRUE]
             ELSE [rooms |-> [rs EXCEPT ![gameCode].players = rest],
                   ret |-> TRUE]

\* removePlayer without the deletion of the emptied room
removePlayerKeepEmptyRoom(rs, gameCode, playerId) ==
    IF ~HasPlayer(rs, gameCode, playerId)
    THEN [rooms |-> rs, ret |-> FALSE]
    ELSE LET idx == findIndex(rs[gameCode].players, playerId)
             rest == RemoveAt(rs[gameCode].players, idx)
         IN  [rooms |->
                 [rs EXCEPT ![gameCode].players =
                     IF rs[gameCode].players[idx].isHost /\ Len(rest) > 0
                     THEN [rest EXCEPT ![1].isHost = TRUE]
                     ELSE rest],
              ret |-> TRUE]

removePlayer(rs, gameCode, playerId) ==
    IF gameCode \notin DOMAIN rs
    THEN [rooms |-> rs, ret |-> FALSE]
    ELSE LET room == rs[gameCode]
             playerIndex == findIndex(room.players, playerId)
         IN  IF playerIndex = 0
             THEN [rooms |-> rs, ret |-> FALSE]
             ELSE LET removedPlayer == room.players[playerIndex]
                      rest == RemoveAt(room.players, playerIndex)
                  IN  IF Len(rest) = 0
                      THEN [rooms |-> MapDelete(rs, gameCode), ret |-> TRUE]
                      ELSE [rooms |->
                               [rs EXCEPT ![gameCode].players =
                                   IF removedPlayer.isHost
                                   THEN [rest EXCEPT ![1].isHost = TRUE]
                                   ELSE rest],
                            ret |-> TRUE]

\* removeIfStillDisconnected without the check of the connected flag
removeEvenIfConnected(rs, gameCode, playerId) ==
    removePlayer(rs, gameCode, playerId)

removeIfStillDisconnected(rs, gameCode, playerId) ==
    IF gameCode \notin DOMAIN rs
    THEN [rooms |-> rs, ret |-> FALSE]
    ELSE LET idx == findIndex(rs[gameCode].players, playerId)
         IN  IF idx = 0
             THEN [rooms |-> rs, ret |-> FALSE]
             ELSE IF ~rs[gameCode].players[idx].connected
                  THEN removePlayer(rs, gameCode, playerId)
                  ELSE [rooms |-> rs, ret |-> FALSE]

\* a sweep that takes one disconnected player for a deserted room
IsDeadRoomIfAnyDisconnected(room, time) ==
    \/ time - room.createdAt > ROOM_MAX_AGE_MS
    \/ /\ \E i \in 1..Len(room.players) : ~room.players[i].connected
       /\ Len(room.players) > 0
       /\ time - MinOf({room.players[i].lastActivity :
                           i \in 1..Len(room.players)}) > DISCONNECT_GRACE_MS

\* the verdict of the sweep on one room
IsDeadRoom(room, time) ==
    \/ time - room.createdAt > ROOM_MAX_AGE_MS
    \/ /\ \A i \in 1..Len(room.players) : ~room.players[i].connected
       /\ Len(room.players) > 0
       /\ time - MinOf({room.players[i].lastActivity :
                           i \in 1..Len(room.players)}) > DISCONNECT_GRACE_MS

cleanupDeadRooms(rs, time) ==
    LET dead == {c \in DOMAIN rs : IsDeadRoom(rs[c], time)}
    IN  [rooms |-> [c \in (DOMAIN rs) \ dead |-> rs[c]],
         ret |-> Cardinality(dead)]

(***************************************************************************)
(* Persistence of GameService.  A command of the client is issued at once  *)
(* and applied later, in the order of issue: redis.data is the content of  *)
(* the store once the commands issued so far are applied.  redis.up is     *)
(* FALSE while there is no client (REDIS_URL not set) or its commands      *)
(* fail; redis.thrown tells that a failure has left saveRoom,              *)
(* deleteRoomFromRedis or initialize as an exception or a rejection.       *)
(***************************************************************************)
\* Date.prototype.toJSON: the ISO string of a date
toJSON(date) ==
    [iso |-> date]

\* new Date(string)
NewDate(string) ==
    string.iso

\* JSON.stringify(room)
serializeRoom(room) ==
    [players |-> [i \in DOMAIN room.players |->
                     [room.players[i] EXCEPT !.lastActivity = toJSON(@)]],
     status |-> room.status,
     createdAt |-> toJSON(room.createdAt),
     gameState |-> room.gameState]

\* JSON.parse(data), the dates restored and the connection state reset
deserializeRoom(data) ==
    [players |-> [i \in DOMAIN data.players |->
                     [data.players[i] EXCEPT !.lastActivity = NewDate(@),
                                             !.connected = FALSE,
                                             !.socketId = NoSocket]],
     status |-> data.status,
     createdAt |-> NewDate(data.createdAt),
     gameState |-> data.gameState]

\* saveRoom without its try/catch
saveRoomUncaught(r, gameCode, room) ==
    IF r.up
    THEN [r EXCEPT !.data = MapSet(@, gameCode, serializeRoom(room))]
    ELSE [r EXCEPT !.thrown = TRUE]

\* saveRoom: no client, or a failure that is caught and logged, leaves
\* the store as it is
saveRoom(r, gameCode, room) ==
    IF r.up
    THEN [r EXCEPT !.data = MapSet(@, gameCode, serializeRoom(room))]
    ELSE r

\* a delete that is never issued
deleteRoomFromRedisSkipped(r, gameCode) ==
    r

deleteRoomFromRedis(r, gameCode) ==
    IF r.up
    THEN [r EXCEPT !.data = MapDelete(@, gameCode)]
    ELSE r

\* The commands each operation of GameService issues, applied to the store:
\* rs is the room map before the operation.
createRoomRedis(r, rs, gameCode, id, time) ==
    saveRoom(r, gameCode, createRoom(rs, gameCode, id, time)[gameCode])

joinRoomRedis(r, rs, gameCode, id, time) ==
    LET joined == joinRoom(rs, gameCode, id, time)
    IN  IF joined.ret = "ok"
        THEN saveRoom(r, gameCode, joined.rooms[gameCode])
        ELSE r

updateRoomStatusRedis(r, rs, gameCode, status) ==
    IF gameCode \in DOMAIN rs
    THEN saveRoom(r, gameCode, updateRoomStatus(rs, gameCode, status)[gameCode])
    ELSE r

updateGameStateRedis(r, rs, gameCode, gameState) ==
    IF gameCode \in DOMAIN rs
    THEN saveRoom(r, gameCode,
                  updateGameState(rs, gameCode, gameState)[gameCode])
    ELSE r

updateSocketIdRedis(r, rs, gameCode, playerId, socketId, time) ==
    IF HasPlayer(rs, gameCode, playerId)
    THEN saveRoom(r, gameCode,
                  updateSocketId(rs, gameCode, playerId, socketId,
                                 time)[gameCode])
    ELSE r

markPlayerDisconnectedRedis(r, rs, gameCode, playerId) ==
    IF HasPlayer(rs, gameCode, playerId)
    THEN saveRoom(r, gameCode,
                  markPlayerDisconnected(rs, gameCode, playerId)[gameCode])
    ELSE r

\* updatePlayerActivity: "Don't save to Redis for activity updates"
updatePlayerActivity(rs, gameCode, playerId, time) ==
    IF gameCode \notin DOMAIN rs
    THEN rs
    ELSE LET idx == findIndex(rs[gameCode].players, playerId)
         IN  IF idx = 0
             THEN rs
             ELSE [rs EXCEPT ![gameCode].players[idx].lastActivity = time]

removePlayerRedis(r, rs, gameCode, playerId) ==
    LET removed == removePlayer(rs, gameCode, playerId)
    IN  IF ~removed.ret
        THEN r
        ELSE IF gameCode \in DOMAIN removed.rooms
        THEN saveRoom(r, gameCode, removed.rooms[gameCode])
        ELSE deleteRoomFromRedis(r, gameCode)

removeIfStillDisconnectedRedis(r, rs, gameCode, playerId) ==
    IF removeIfStillDisconnected(rs, gameCode, playerId).ret
    THEN removePlayerRedis(r, rs, gameCode, playerId)
    ELSE r

\* one deleteRoomFromRedis for every room the sweep deletes
RECURSIVE deleteAll(_, _)
deleteAll(r, codes) ==
    IF codes = {}
    THEN r
    ELSE LET gameCode == CHOOSE c \in codes : TRUE
         IN  deleteAll(deleteRoomFromRedis(r, gameCode), codes \ {gameCode})

cleanupDeadRoomsRedis(r, rs, time) ==
    deleteAll(r, (DOMAIN rs) \ DOMAIN cleanupDeadRooms(rs, time).rooms)

(***************************************************************************)
(* The gateway (src/backend/websocket/gameHandler.ts).                     *)
(***************************************************************************)
DeadSocket ==
    [live |-> FALSE, playerId |-> NoPlayer, gameCode |-> NoCode, joined |-> {}]

NoTimer ==
    [phase |-> "none", gameCode |-> NoCode, playerId |-> NoPlayer]

\* io.to(gameCode): the live connections that joined the socket.io room
IoTo(socks, gameCode) ==
    {s \in SocketIds : socks[s].live /\ gameCode \in socks[s].joined}

socketToWithSender(socks, s, gameCode) ==
    IoTo(socks, gameCode)

\* socket.to(gameCode): the room without the sending connection
socketTo(socks, s, gameCode) ==
    IoTo(socks, gameCode) \ {s}

Emit(ev, to, playerId) ==
    [ev |-> ev, to |-> to, playerId |-> playerId]

\* an emission that carries a room: the object the registry holds
EmitRoom(ev, to, playerId, room) ==
    [ev |-> ev, to |-> to, playerId |-> playerId, room |-> room]

\* an emission to the room that carries a number: a count, a round
EmitNumber(ev, to, n) ==
    [ev |-> ev, to |-> to, playerId |-> NoPlayer, n |-> n]

\* socket.playerId / socket.gameCode / socket.join(gameCode)
BindSocket(socks, s, gameCode, playerId) ==
    [socks EXCEPT ![s].playerId = playerId,
                  ![s].gameCode = gameCode,
                  ![s].joined = @ \cup {gameCode}]

\* a socket id no live connection and no player record carries
FreshSocket(s) ==
    /\ ~sockets[s].live
    /\ \A c \in DOMAIN rooms : \A i \in 1..Len(rooms[c].players) :
          rooms[c].players[i].socketId # s

(***************************************************************************)
(* The round engine (simonLogic.ts): pure functions on one room's          *)
(* SimonGameState.  A game state is a record; playerStates and scores are  *)
(* maps keyed by player id whose key order is `order`; submissions is the  *)
(* map of the round's submissions in insertion order.  null is NoPlayer    *)
(* for a player id and 0 for eliminatedAtRound.                            *)
(***************************************************************************)
COLORS == <<"red", "blue", "yellow", "green">>

\* the colors the model draws from
Palette == {COLORS[i] : i \in (1..NumColors) \cap DOMAIN COLORS}

Difficulties == {"easy", "medium", "hard"}

\* difficulty: Difficulty = 'medium'
DefaultDifficulty == "medium"

\* an argument the caller leaves out
undefined == "undefined"

\* TIMEOUT_DECREMENT_MS of a preset: one of these, chosen when a game starts
DecrementChoices == {500, 9000}

EnginePlayerIds == 1..MaxEnginePlayers

Timestamps == 1..MaxTimestamp

Max(a, b) == IF a >= b THEN a ELSE b

Range(s) == {s[i] : i \in DOMAIN s}

getSimonConstantsForDifficulty(difficulty) ==
    [INITIAL_SEQUENCE_LENGTH |-> 1,
     INITIAL_TIMEOUT_MS |-> CASE difficulty = "easy" -> 10000
                              [] difficulty = "medium" -> 5000
                              [] OTHER -> 4000,
     TIMEOUT_DECREMENT_MS |-> decrementMs,
     MIN_TIMEOUT_MS |-> CASE difficulty = "easy" -> 3000
                          [] difficulty = "medium" -> 1500
                          [] OTHER -> 1000]

\* every sequence Math.random can produce
generateSequence(length) == [1..length -> Palette]

extendSequenceRegenerated(currentSequence) ==
    [1..(Len(currentSequence) + 1) -> Palette]

extendSequence(currentSequence) ==
    {Append(currentSequence, c) : c \in Palette}

\* one second per color instead of two
calculateTimeoutSecondsOnePerColor(sequenceLength) == 15 + sequenceLength

calculateTimeoutSeconds(sequenceLength) == 15 + (sequenceLength * 2)

calculateTimeoutMs(sequenceLength) ==
    calculateTimeoutSeconds(sequenceLength) * 1000

NoGame ==
    [phase |-> "none", sequence |-> <<>>, round |-> 0, order |-> <<>>,
     playerStates |-> <<>>, timeoutMs |-> 0, scores |-> <<>>,
     submissions |-> <<>>, roundWinner |-> NoPlayer, difficulty |-> "none"]

\* a game started with the easy preset when the caller names no difficulty
initializeSimonGameEasyByDefault(players, difficultyArg) ==
    LET difficulty == IF difficultyArg = undefined THEN "easy" ELSE difficultyArg
        constants == getSimonConstantsForDifficulty(difficulty)
    IN  {[phase |-> "showing_sequence",
          sequence |-> initialSequence,
          round |-> 1,
          order |-> players,
          playerStates |-> [p \in Range(players) |->
                               [playerId |-> p, status |-> "playing",
                                currentInputIndex |-> 0, eliminatedAtRound |-> 0]],
          timeoutMs |-> calculateTimeoutMs(constants.INITIAL_SEQUENCE_LENGTH),
          scores |-> [p \in Range(players) |-> 0],
          submissions |-> <<>>,
          roundWinner |-> NoPlayer,
          difficulty |-> difficulty] :
            initialSequence \in generateSequence(constants.INITIAL_SEQUENCE_LENGTH)}

\* the states initializeSimonGame can return: one for each sequence that
\* generateSequence can draw
initializeSimonGame(players, difficultyArg) ==
    LET difficulty == IF difficultyArg = undefined
                      THEN DefaultDifficulty ELSE difficultyArg
        constants == getSimonConstantsForDifficulty(difficulty)
    IN  {[phase |-> "showing_sequence",
          sequence |-> initialSequence,
          round |-> 1,
          order |-> players,
          playerStates |-> [p \in Range(players) |->
                               [playerId |-> p, status |-> "playing",
                                currentInputIndex |-> 0, eliminatedAtRound |-> 0]],
          timeoutMs |-> calculateTimeoutMs(constants.INITIAL_SEQUENCE_LENGTH),
          scores |-> [p \in Range(players) |-> 0],
          submissions |-> <<>>,
          roundWinner |-> NoPlayer,
          difficulty |-> difficulty] :
            initialSequence \in generateSequence(constants.INITIAL_SEQUENCE_LENGTH)}

validateSequence(gameState, submittedSequence) ==
    IF Len(submittedSequence) # Len(gameState.sequence)
    THEN FALSE
    ELSE \A i \in 1..Len(gameState.sequence) :
            submittedSequence[i] = gameState.sequence[i]

\* gameState.submissions[playerId] = submission: a new key goes last, an
\* existing key keeps its place
storeSubmission(gameState, submission) ==
    LET subs == gameState.submissions
        at == {i \in DOMAIN subs : subs[i].playerId = submission.playerId}
    IN  [gameState EXCEPT !.submissions =
            IF at = {} THEN Append(subs, submission)
            ELSE [i \in DOMAIN subs |->
                    IF i \in at THEN submission ELSE subs[i]]]

\* [...].sort((a, b) => a.timestamp - b.timestamp), a stable sort
RECURSIVE sortByTimestamp(_)
sortByTimestamp(subs) ==
    IF subs = <<>> THEN <<>>
    ELSE LET least == MinOf({subs[i].timestamp : i \in DOMAIN subs})
             first == MinOf({i \in DOMAIN subs : subs[i].timestamp = least})
         IN  <<subs[first]>> \o sortByTimestamp(RemoveAt(subs, first))

noWrongSubmissions(gameState) == <<>>

\* every incorrect submission eliminates its player again, whatever the
\* player's status
wrongSubmissionsOfAnyStatus(gameState) ==
    LET Wrong(s) ==
            /\ ~s.isCorrect
            /\ s.playerId \in DOMAIN gameState.playerStates
    IN  SelectSeq(gameState.submissions, Wrong)

\* the submissions the forEach of processRoundSubmissions eliminates
wrongSubmissions(gameState) ==
    LET Wrong(s) ==
            /\ ~s.isCorrect
            /\ s.playerId \in DOMAIN gameState.playerStates
            /\ gameState.playerStates[s.playerId].status = "playing"
    IN  SelectSeq(gameState.submissions, Wrong)

firstOnly(sorted) == <<sorted[1]>>

\* sorted.filter(s => s.timestamp === fastestTime)
winnersOf(sorted) ==
    LET fastestTime == sorted[1].timestamp
        Fastest(s) == s.timestamp = fastestTime
    IN  SelectSeq(sorted, Fastest)

\* a processing that sweeps the round: every playing player without a
\* submission is eliminated for a timeout
processRoundSubmissionsSweeping(gameState) ==
    LET Silent(p) ==
            /\ gameState.playerStates[p].status = "playing"
            /\ \A i \in DOMAIN gameState.submissions :
                  gameState.submissions[i].playerId # p
        silent == SelectSeq(gameState.order, Silent)
    IN  [gameState |->
            [gameState EXCEPT
                !.playerStates =
                    [p \in DOMAIN gameState.playerStates |->
                        IF Silent(p)
                        THEN [gameState.playerStates[p] EXCEPT
                                 !.status = "eliminated",
                                 !.eliminatedAtRound = gameState.round]
                        ELSE gameState.playerStates[p]],
                !.roundWinner = NoPlayer,
                !.submissions = <<>>],
         roundWinner |-> NoPlayer,
         score |-> 0,
         eliminations |-> [i \in DOMAIN silent |->
                             [playerId |-> silent[i], reason |-> "timeout"]]]

processRoundSubmissions(gameState) ==
    LET submissions == gameState.submissions
        Correct(s) == s.isCorrect
        correctSubmissions == SelectSeq(submissions, Correct)
        wrong == wrongSubmissions(gameState)
        eliminations == [i \in DOMAIN wrong |->
                           [playerId |-> wrong[i].playerId,
                            reason |-> "wrong_sequence"]]
        updatedPlayerStates ==
            [p \in DOMAIN gameState.playerStates |->
                IF \E i \in DOMAIN wrong : wrong[i].playerId = p
                THEN [gameState.playerStates[p] EXCEPT
                         !.status = "eliminated",
                         !.eliminatedAtRound = gameState.round]
                ELSE gameState.playerStates[p]]
        winners == IF correctSubmissions = <<>> THEN <<>>
                   ELSE winnersOf(sortByTimestamp(correctSubmissions))
        updatedScores ==
            [p \in DOMAIN gameState.scores |->
                gameState.scores[p]
                  + Cardinality({i \in DOMAIN winners :
                                    winners[i].playerId = p})]
    IN  [gameState |-> [gameState EXCEPT
                           !.playerStates = updatedPlayerStates,
                           !.scores = updatedScores,
                           !.roundWinner = IF winners = <<>> THEN NoPlayer
                                           ELSE winners[1].playerId,
                           !.submissions = <<>>],
         roundWinner |-> IF winners = <<>> THEN NoPlayer
                         ELSE winners[1].playerId,
         score |-> IF winners = <<>> THEN 0
                   ELSE updatedScores[winners[1].playerId],
         eliminations |-> eliminations]

\* an advance that carries the round's input positions and submissions over
advanceToNextRoundCarryingOver(gameState, newSequence) ==
    [gameState EXCEPT
        !.phase = "showing_sequence",
        !.sequence = newSequence,
        !.round = gameState.round + 1,
        !.roundWinner = NoPlayer]

advanceToNextRound(gameState, newSequence) ==
    LET constants == getSimonConstantsForDifficulty(gameState.difficulty)
        newTimeout == Max(constants.MIN_TIMEOUT_MS,
                          gameState.timeoutMs - constants.TIMEOUT_DECREMENT_MS)
    IN  [gameState EXCEPT
            !.phase = "showing_sequence",
            !.sequence = newSequence,
            !.round = gameState.round + 1,
            !.playerStates = [p \in DOMAIN gameState.playerStates |->
                                [gameState.playerStates[p] EXCEPT
                                    !.currentInputIndex = 0]],
            !.timeoutMs = newTimeout,
            !.submissions = <<>>,
            !.roundWinner = NoPlayer]

\* activePlayers.length > 0 && submissions.length >= activePlayers.length
haveAllPlayersSubmitted(gameState) ==
    LET activePlayers == {p \in DOMAIN gameState.playerStates :
                             gameState.playerStates[p].status = "playing"}
        submissions == DOMAIN gameState.submissions
    IN  /\ Cardinality(activePlayers) > 0
        /\ Cardinality(submissions) >= Cardinality(activePlayers)

eliminatePlayer(gameState, playerId, round) ==
    IF playerId \in DOMAIN gameState.playerStates
    THEN [gameState EXCEPT
             !.playerStates[playerId].status = "eliminated",
             !.playerStates[playerId].eliminatedAtRound = round]
    ELSE gameState

updatePlayerProgress(gameState, playerId) ==
    IF playerId \in DOMAIN gameState.playerStates
    THEN [gameState EXCEPT
             !.playerStates[playerId].currentInputIndex = @ + 1]
    ELSE gameState

activePlayers(gameState) ==
    {p \in DOMAIN gameState.playerStates :
        gameState.playerStates[p].status = "playing"}

shouldGameEndWithoutSoloMode(gameState) ==
    Cardinality(activePlayers(gameState)) <= 1

shouldGameEndWhenNoneLeft(gameState) ==
    Cardinality(activePlayers(gameState)) = 0

shouldGameEnd(gameState) ==
    LET totalPlayers == Cardinality(DOMAIN gameState.playerStates)
    IN  IF totalPlayers = 1
        THEN Cardinality(activePlayers(gameState)) = 0
        ELSE Cardinality(activePlayers(gameState)) <= 1

\* the forEach of getWinner that keeps the last of the highest scorers
scanScoresKeepLast(scores, order, i, highestScore, winnerId) ==
    LET top == MinOf({x \in 0..MaxScore :
                        \A k \in DOMAIN order : scores[order[k]] <= x})
        tops == {k \in DOMAIN order : scores[order[k]] = top}
        lastTop == CHOOSE k \in tops : \A j \in tops : j <= k
    IN  IF order = <<>> THEN winnerId ELSE order[lastTop]

\* Object.entries(gameState.scores).forEach of getWinner, from entry i on
RECURSIVE scanScores(_, _, _, _, _)
scanScores(scores, order, i, highestScore, winnerId) ==
    IF i > Len(order)
    THEN winnerId
    ELSE IF scores[order[i]] > highestScore
         THEN scanScores(scores, order, i + 1, scores[order[i]], order[i])
         ELSE scanScores(scores, order, i + 1, highestScore, winnerId)

getWinner(gameState) ==
    LET Playing(p) == gameState.playerStates[p].status = "playing"
        active == SelectSeq(gameState.order, Playing)
    IN  IF Len(active) = 1
        THEN active[1]
        ELSE IF Len(active) = 0
             THEN scanScores(gameState.scores, gameState.order, 1, -1,
                             NoPlayer)
             ELSE NoPlayer

\* no round has been processed since the last other call
NoResult ==
    [op |-> "none", submissions |-> <<>>, roundWinner |-> NoPlayer,
     score |-> 0, eliminations |-> <<>>]

Init ==
    /\ rooms = <<>>
    /\ sockets = [s \in SocketIds |-> DeadSocket]
    /\ timers = [t \in TimerIds |-> NoTimer]
    /\ disconnectTimeouts = <<>>
    /\ now = 0
    /\ last = [op |-> "init", ret |-> "ok", emits |-> <<>>]
    /\ game = NoGame
    /\ decrementMs = 0
    /\ result = NoResult
    /\ roundAnswers = <<>>
    /\ redis = [up |-> TRUE, data |-> <<>>, thrown |-> FALSE]

\* POST /create-session: GameService.createRoom with a generated code
CreateRoom(codes, ids) ==
    /\ ids \ UsedIds # {}
    /\ \E gameCode \in codes \ DOMAIN rooms :
          /\ rooms' = createRoom(rooms, gameCode, uuidv4(ids), now)
          /\ redis' = createRoomRedis(redis, rooms, gameCode, uuidv4(ids), now)
          /\ last' = [op |-> "createRoom", ret |-> gameCode, emits |-> <<>>]
    /\ UNCHANGED <<sockets, timers, disconnectTimeouts, now>>
    /\ UNCHANGED <<roundAnswers, engine>>

\* POST /join-game: GameService.joinRoom
JoinRoom(ids) ==
    /\ ids \ UsedIds # {}
    /\ \E gameCode \in Codes :
          LET r == joinRoom(rooms, gameCode, uuidv4(ids), now)
          IN  /\ rooms' = r.rooms
              /\ redis' = joinRoomRedis(redis, rooms, gameCode, uuidv4(ids),
                                        now)
              /\ last' = [op |-> "joinRoom", ret |-> r.ret, emits |-> <<>>]
    /\ UNCHANGED <<sockets, timers, disconnectTimeouts, now>>
    /\ UNCHANGED <<roundAnswers, engine>>

\* io.on('connection'): handleAutoReconnect with the cookie's session, if any
Connection(s, hasCookie, gameCode, playerId) ==
    /\ FreshSocket(s)
    /\ \A s2 \in SocketIds : FreshSocket(s2) => s <= s2
    /\ IF hasCookie /\ HasPlayer(rooms, gameCode, playerId)
       THEN LET key == <<gameCode, playerId>>
                socks == BindSocket([sockets EXCEPT ![s].live = TRUE],
                                    s, gameCode, playerId)
            IN  /\ rooms' = updateSocketId(rooms, gameCode, playerId, s, now)
                /\ redis' = updateSocketIdRedis(redis, rooms, gameCode,
                                                playerId, s, now)
                /\ sockets' = socks
                /\ IF key \in DOMAIN disconnectTimeouts
                   THEN /\ timers' = [timers EXCEPT
                                        ![disconnectTimeouts[key]] = NoTimer]
                        /\ disconnectTimeouts' =
                              MapDelete(disconnectTimeouts, key)
                   ELSE UNCHANGED <<timers, disconnectTimeouts>>
                /\ last' = [op |-> "connection", ret |-> "reconnected",
                            emits |->
                              <<Emit("player_reconnected",
                                     socketTo(socks, s, gameCode), playerId),
                                EmitRoom("room_state", {s}, playerId,
                                         rooms'[gameCode])>>]
       ELSE /\ sockets' = [sockets EXCEPT ![s].live = TRUE]
            /\ last' = [op |-> "connection", ret |-> "no session",
                        emits |-> <<>>]
            /\ UNCHANGED <<rooms, redis, timers, disconnectTimeouts>>
    /\ UNCHANGED <<now, roundAnswers, engine>>

\* socket.on('join_room_socket')
JoinRoomSocket(s, gameCode, playerId) ==
    /\ sockets[s].live
    /\ IF gameCode \notin DOMAIN rooms
       THEN /\ last' = [op |-> "join_room_socket", ret |-> "Room not found",
                        emits |-> <<Emit("error", {s}, playerId)>>]
            /\ UNCHANGED <<rooms, redis, sockets>>
       ELSE IF ~HasPlayer(rooms, gameCode, playerId)
       THEN /\ last' = [op |-> "join_room_socket",
                        ret |-> "Player not in room",
                        emits |-> <<Emit("error", {s}, playerId)>>]
            /\ UNCHANGED <<rooms, redis, sockets>>
       ELSE LET socks == BindSocket(sockets, s, gameCode, playerId)
            IN  /\ rooms' = updateSocketId(rooms, gameCode, playerId, s, now)
                /\ redis' = updateSocketIdRedis(redis, rooms, gameCode,
                                                playerId, s, now)
                /\ sockets' = socks
                /\ last' = [op |-> "join_room_socket", ret |-> "ok",
                            emits |->
                              <<Emit("player_joined",
                                     socketTo(socks, s, gameCode), playerId),
                                EmitRoom("room_state", {s}, playerId,
                                         rooms'[gameCode])>>]
    /\ UNCHANGED <<timers, disconnectTimeouts, now, roundAnswers, engine>>

\* socket.on('leave_room')
LeaveRoom(s, gameCode, playerId) ==
    /\ sockets[s].live
    /\ LET r == removePlayer(rooms, gameCode, playerId)
           left == IF r.ret
                   THEN [sockets EXCEPT ![s].joined = @ \ {gameCode}]
                   ELSE sockets
       IN  /\ rooms' = r.rooms
           /\ redis' = removePlayerRedis(redis, rooms, gameCode, playerId)
           /\ sockets' = [left EXCEPT ![s].playerId = NoPlayer,
                                      ![s].gameCode = NoCode]
           /\ last' = [op |-> "leave_room", ret |-> Bool(r.ret),
                       emits |->
                         IF ~r.ret
                         THEN <<>>
                         ELSE <<Emit("player_left", IoTo(left, gameCode),
                                     playerId)>>
                              \o IF gameCode \in DOMAIN r.rooms
                                 THEN <<>>
                                 ELSE <<Emit("room_closed",
                                             IoTo(left, gameCode), playerId)>>]
    /\ UNCHANGED <<timers, disconnectTimeouts, now, roundAnswers, engine>>

\* setTimeout: the handle of the new timer
FreeTimer ==
    MinOf({t \in TimerIds : timers[t].phase = "none"})

\* socket.on('disconnect'): handleDisconnect
Disconnect(s) ==
    /\ sockets[s].live
    /\ sockets' = [sockets EXCEPT ![s] = DeadSocket]
    /\ IF sockets[s].playerId = NoPlayer \/ sockets[s].gameCode = NoCode
       THEN /\ last' = [op |-> "disconnect", ret |-> "no session",
                        emits |-> <<>>]
            /\ UNCHANGED <<timers, disconnectTimeouts>>
       ELSE /\ \E t \in TimerIds : timers[t].phase = "none"
            /\ timers' = [timers EXCEPT ![FreeTimer] =
                            [phase |-> "buffer",
                             gameCode |-> sockets[s].gameCode,
                             playerId |-> sockets[s].playerId]]
            /\ disconnectTimeouts' =
                  MapSet(disconnectTimeouts,
                         <<sockets[s].gameCode, sockets[s].playerId>>,
                         FreeTimer)
            /\ last' = [op |-> "disconnect", ret |-> "scheduled",
                        emits |-> <<>>]
    /\ UNCHANGED <<rooms, redis, now, roundAnswers, engine>>

\* the bufferTimeout callback of handleDisconnect
BufferTimeout(t) ==
    /\ timers[t].phase = "buffer"
    /\ LET gameCode == timers[t].gameCode
           playerId == timers[t].playerId
       IN  /\ rooms' = markPlayerDisconnected(rooms, gameCode, playerId)
           /\ redis' = markPlayerDisconnectedRedis(redis, rooms, gameCode,
                                                   playerId)
           /\ timers' = [timers EXCEPT ![t].phase = "removal"]
           /\ disconnectTimeouts' =
                 MapSet(disconnectTimeouts, <<gameCode, playerId>>, t)
           /\ last' = [op |-> "bufferTimeout", ret |-> "ok",
                       emits |-> <<Emit("player_disconnected",
                                        IoTo(sockets, gameCode), playerId)>>]
    /\ UNCHANGED <<sockets, now, roundAnswers, engine>>

\* the removalTimeout callback of handleDisconnect
RemovalTimeout(t) ==
    /\ timers[t].phase = "removal"
    /\ LET gameCode == timers[t].gameCode
           playerId == timers[t].playerId
           r == removeIfStillDisconnected(rooms, gameCode, playerId)
       IN  /\ rooms' = r.rooms
           /\ redis' = removeIfStillDisconnectedRedis(redis, rooms, gameCode,
                                                      playerId)
           /\ timers' = [timers EXCEPT ![t] = NoTimer]
           /\ disconnectTimeouts' =
                 MapDelete(disconnectTimeouts, <<gameCode, playerId>>)
           /\ last' = [op |-> "removalTimeout", ret |-> Bool(r.ret),
                       emits |->
                         IF ~r.ret
                         THEN <<>>
                         ELSE <<Emit("player_left", IoTo(sockets, gameCode),
                                     playerId)>>
                              \o IF gameCode \in DOMAIN r.rooms
                                 THEN <<>>
                                 ELSE <<Emit("room_closed",
                                             IoTo(sockets, gameCode),
                                             playerId)>>]
    /\ UNCHANGED <<sockets, now, roundAnswers, engine>>

\* any player of the room may start the game
isMemberOf(room, playerId) ==
    findIndex(room.players, playerId) # 0

\* room.players.find(p => p.id === playerId)?.isHost
isHostOf(room, playerId) ==
    /\ findIndex(room.players, playerId) # 0
    /\ room.players[findIndex(room.players, playerId)].isHost

\* codes a running countdown still refers to: generateGameCode does not
\* draw one of them
CountingCodes ==
    {timers[t].gameCode : t \in {u \in TimerIds : timers[u].phase = "countdown"}}

\* socket.on('start_game'), startCountdown included
StartGame(s, gameCode, playerId) ==
    /\ sockets[s].live
    /\ IF gameCode \notin DOMAIN rooms
       THEN /\ last' = [op |-> "start_game", ret |-> "Room not found",
                        emits |-> <<Emit("error", {s}, playerId)>>]
            /\ UNCHANGED <<rooms, redis, timers>>
       ELSE IF ~isHostOf(rooms[gameCode], playerId)
       THEN /\ last' = [op |-> "start_game",
                        ret |-> "Only host can start the game",
                        emits |-> <<Emit("error", {s}, playerId)>>]
            /\ UNCHANGED <<rooms, redis, timers>>
       ELSE IF rooms[gameCode].status # "waiting"
       THEN /\ last' = [op |-> "start_game", ret |-> "Game already started",
                        emits |-> <<Emit("error", {s}, playerId)>>]
            /\ UNCHANGED <<rooms, redis, timers>>
       ELSE /\ \E t \in TimerIds : timers[t].phase = "none"
            /\ rooms' = updateRoomStatus(rooms, gameCode, "countdown")
            /\ redis' = updateRoomStatusRedis(redis, rooms, gameCode,
                                              "countdown")
            /\ timers' = [timers EXCEPT ![FreeTimer] =
                            [phase |-> "countdown", gameCode |-> gameCode,
                             playerId |-> NoPlayer, count |-> 3]]
            /\ last' = [op |-> "start_game", ret |-> "ok", emits |-> <<>>]
    /\ UNCHANGED <<sockets, disconnectTimeouts, now, roundAnswers, engine>>

\* a restart_game event: registerPlatformHandlers and registerGameHandlers
\* register no listener for it, so the connection's event is dropped
RestartGame(s, gameCode, playerId) ==
    /\ sockets[s].live
    /\ last' = [op |-> "restart_game", ret |-> "no listener", emits |-> <<>>]
    /\ UNCHANGED <<rooms, redis, sockets, timers, disconnectTimeouts, now>>
    /\ UNCHANGED <<roundAnswers, engine>>

\* the setInterval callback of startCountdown
CountdownTick(t) ==
    /\ timers[t].phase = "countdown"
    /\ LET gameCode == timers[t].gameCode
           count == timers[t].count
           to == IoTo(sockets, gameCode)
           active == updateRoomStatus(rooms, gameCode, "active")
           gameState == initializeColorRaceGame(active[gameCode].players)
       IN  IF count # 0
           THEN /\ timers' = [timers EXCEPT ![t].count = count - 1]
                /\ last' = [op |-> "countdown", ret |-> "ok",
                            emits |-> <<EmitNumber("countdown", to, count)>>]
                /\ UNCHANGED <<rooms, redis>>
           ELSE /\ timers' = [timers EXCEPT ![t] = NoTimer]
                /\ IF gameCode \in DOMAIN rooms
                   THEN /\ rooms' = updateGameState(active, gameCode, gameState)
                        /\ redis' =
                              updateGameStateRedis(
                                  updateRoomStatusRedis(redis, rooms, gameCode,
                                                        "active"),
                                  active, gameCode, gameState)
                        /\ last' = [op |-> "countdown", ret |-> "ok",
                                    emits |->
                                      <<EmitNumber("countdown", to, count),
                                        EmitNumber("color_race:new_round", to,
                                                   gameState.round)>>]
                   ELSE /\ UNCHANGED <<rooms, redis>>
                        /\ last' = [op |-> "countdown", ret |-> "ok",
                                    emits |->
                                      <<EmitNumber("countdown", to, count)>>]
    /\ UNCHANGED <<sockets, disconnectTimeouts, now, roundAnswers, engine>>

\* startCleanupInterval: the periodic GameService.cleanupDeadRooms
Cleanup ==
    /\ LET r == cleanupDeadRooms(rooms, now)
       IN  /\ rooms' = r.rooms
           /\ redis' = cleanupDeadRoomsRedis(redis, rooms, now)
           /\ last' = [op |-> "cleanupDeadRooms", ret |-> "ok",
                       emits |-> <<>>, cleaned |-> r.ret]
    /\ UNCHANGED <<sockets, timers, disconnectTimeouts, now>>
    /\ UNCHANGED <<roundAnswers, engine>>

\* time passes
Tick ==
    /\ now < MaxTime
    /\ now' = now + 1
    /\ UNCHANGED <<rooms, redis, sockets, timers, disconnectTimeouts, last>>
    /\ UNCHANGED <<roundAnswers, engine>>

Next ==
    \/ CreateRoom(GatewayCodes, PlayerIds)
    \/ JoinRoom(PlayerIds)
    \/ \E s \in SocketIds : Connection(s, FALSE, NoCode, NoPlayer)
    \/ \E s \in SocketIds, c \in Codes, p \in PlayerIds :
          Connection(s, TRUE, c, p)
    \/ \E s \in SocketIds, c \in Codes, p \in PlayerIds :
          JoinRoomSocket(s, c, p)
    \/ \E s \in SocketIds, c \in Codes, p \in PlayerIds : LeaveRoom(s, c, p)
    \/ \E s \in SocketIds : Disconnect(s)
    \/ \E t \in TimerIds : BufferTimeout(t)
    \/ \E t \in TimerIds : RemovalTimeout(t)

Spec == Init /\ [][Next]_vars

(***************************************************************************)
(* The gateway with the start of a game: the host starts it, the countdown *)
(* runs and the first round begins, while players join and leave.          *)
(***************************************************************************)
NextGame ==
    \/ CreateRoom(GatewayCodes \ CountingCodes, PlayerIds)
    \/ JoinRoom(PlayerIds)
    \/ \E s \in SocketIds : Connection(s, FALSE, NoCode, NoPlayer)
    \/ \E s \in SocketIds, c \in Codes, p \in PlayerIds :
          JoinRoomSocket(s, c, p)
    \/ \E s \in SocketIds, c \in Codes, p \in PlayerIds : LeaveRoom(s, c, p)
    \/ \E s \in SocketIds, c \in Codes, p \in PlayerIds : StartGame(s, c, p)
    \/ \E t \in TimerIds : CountdownTick(t)
    \/ \E s \in SocketIds, c \in Codes, p \in PlayerIds : RestartGame(s, c, p)

SpecGame == Init /\ [][NextGame]_vars

(***************************************************************************)
(* The gateway with the rounds of a game: answers arrive and a round is    *)
(* processed.  Timer callbacks are scheduled fairly; nothing obliges a     *)
(* client to send an event.                                                *)
(***************************************************************************)
\* roundAnswers.get(gameCode) || []
answersOf(gameCode) ==
    IF gameCode \in DOMAIN roundAnswers THEN roundAnswers[gameCode] ELSE <<>>

\* room.players.filter(p => p.connected)
connectedPlayers(room) ==
    SelectSeq(room.players, LAMBDA p : p.connected)

\* socket.on('color_race:submit_answer'), processColorRaceRound included
SubmitAnswer(s, gameCode, playerId, color) ==
    /\ sockets[s].live
    /\ IF \/ gameCode \notin DOMAIN rooms
          \/ rooms[gameCode].status # "active"
          \/ rooms[gameCode].gameState.gameType # "color_race"
          \/ \E i \in DOMAIN answersOf(gameCode) :
                answersOf(gameCode)[i].playerId = playerId
       THEN /\ last' = [op |-> "submit_answer", ret |-> "ignored",
                        emits |-> <<>>]
            /\ UNCHANGED <<rooms, redis, timers, roundAnswers>>
       ELSE LET room == rooms[gameCode]
                answers == Append(answersOf(gameCode),
                                  [playerId |-> playerId, color |-> color,
                                   timestamp |-> now])
                to == IoTo(sockets, gameCode)
            IN  IF Len(answers) < Len(connectedPlayers(room))
                THEN /\ roundAnswers' = MapSet(roundAnswers, gameCode, answers)
                     /\ last' = [op |-> "submit_answer", ret |-> "recorded",
                                 emits |-> <<>>]
                     /\ UNCHANGED <<rooms, redis, timers>>
                ELSE \E newState \in processRound(room.gameState, answers) :
                        /\ roundAnswers' = MapSet(roundAnswers, gameCode, <<>>)
                        /\ IF newState.phase = "finished"
                           THEN /\ rooms' =
                                      updateRoomStatus(
                                          updateGameState(rooms, gameCode,
                                                          newState),
                                          gameCode, "finished")
                                /\ redis' =
                                      updateRoomStatusRedis(
                                          updateGameStateRedis(redis, rooms,
                                                               gameCode,
                                                               newState),
                                          updateGameState(rooms, gameCode,
                                                          newState),
                                          gameCode, "finished")
                                /\ last' =
                                      [op |-> "submit_answer",
                                       ret |-> "processed",
                                       emits |->
                                         <<EmitNumber("color_race:round_result",
                                                      to, room.gameState.round),
                                           EmitNumber("color_race:game_finished",
                                                      to, newState.round)>>]
                                /\ UNCHANGED timers
                           ELSE /\ \E t \in TimerIds : timers[t].phase = "none"
                                /\ rooms' = updateGameState(rooms, gameCode,
                                                            newState)
                                /\ redis' =
                                      updateGameStateRedis(redis, rooms,
                                                           gameCode, newState)
                                /\ timers' =
                                      [timers EXCEPT ![FreeTimer] =
                                          [phase |-> "new_round",
                                           gameCode |-> gameCode,
                                           playerId |-> NoPlayer,
                                           count |-> newState.round]]
                                /\ last' =
                                      [op |-> "submit_answer",
                                       ret |-> "processed",
                                       emits |->
                                         <<EmitNumber("color_race:round_result",
                                                      to,
                                                      room.gameState.round)>>]
    /\ UNCHANGED <<sockets, disconnectTimeouts, now, engine>>

\* the setTimeout callback of processColorRaceRound
NewRoundTimeout(t) ==
    /\ timers[t].phase = "new_round"
    /\ LET gameCode == timers[t].gameCode
       IN  /\ timers' = [timers EXCEPT ![t] = NoTimer]
           /\ last' = [op |-> "new_round", ret |-> "ok",
                       emits |->
                         IF /\ gameCode \in DOMAIN rooms
                            /\ rooms[gameCode].status = "active"
                         THEN <<EmitNumber("color_race:new_round",
                                           IoTo(sockets, gameCode),
                                           timers[t].count)>>
                         ELSE <<>>]
    /\ UNCHANGED <<rooms, redis, sockets, disconnectTimeouts, now>>
    /\ UNCHANGED <<roundAnswers, engine>>

\* codes the gateway's timers and answers still refer to:
\* generateGameCode does not draw one of them
RaceCodes ==
    {timers[t].gameCode : t \in TimerIds} \cup DOMAIN roundAnswers

NextRace ==
    \/ CreateRoom(GatewayCodes \ RaceCodes, PlayerIds)
    \/ JoinRoom(PlayerIds)
    \/ \E s \in SocketIds : Connection(s, FALSE, NoCode, NoPlayer)
    \/ \E s \in SocketIds, c \in Codes, p \in PlayerIds : JoinRoomSocket(s, c, p)
    \/ \E s \in SocketIds, c \in Codes, p \in PlayerIds : StartGame(s, c, p)
    \/ \E t \in TimerIds : CountdownTick(t)
    \/ \E s \in SocketIds, c \in Codes, p \in PlayerIds, color \in Palette :
          SubmitAnswer(s, c, p, color)
    \/ \E t \in TimerIds : NewRoundTimeout(t)

\* setInterval and setTimeout callbacks run once they are due
TimersFair ==
    /\ WF_vars(\E t \in TimerIds : CountdownTick(t))
    /\ WF_vars(\E t \in TimerIds : NewRoundTimeout(t))

SpecRace == Init /\ [][NextRace]_vars /\ TimersFair

(***************************************************************************)
(* The gateway with several rooms: connections bind to players of          *)
(* different rooms and leave.                                              *)
(***************************************************************************)
NextBinding ==
    \/ CreateRoom(Codes, PlayerIds)
    \/ JoinRoom(PlayerIds)
    \/ \E s \in SocketIds : Connection(s, FALSE, NoCode, NoPlayer)
    \/ \E s \in SocketIds, c \in Codes, p \in PlayerIds : JoinRoomSocket(s, c, p)
    \/ \E s \in SocketIds, c \in Codes, p \in PlayerIds : LeaveRoom(s, c, p)

SpecBinding == Init /\ [][NextBinding]_vars

(***************************************************************************)
(* The registry alone: the calls the gateway and the HTTP controllers make *)
(* on GameService, with any arguments, and the sweep as time passes.       *)
(***************************************************************************)
UpdateSocketId(gameCode, playerId, s) ==
    /\ rooms' = updateSocketId(rooms, gameCode, playerId, s, now)
    /\ redis' = updateSocketIdRedis(redis, rooms, gameCode, playerId, s, now)
    /\ last' = [op |-> "updateSocketId",
                ret |-> Bool(HasPlayer(rooms, gameCode, playerId)),
                emits |-> <<>>]
    /\ UNCHANGED <<sockets, timers, disconnectTimeouts, now>>
    /\ UNCHANGED <<roundAnswers, engine>>

MarkPlayerDisconnected(gameCode, playerId) ==
    /\ rooms' = markPlayerDisconnected(rooms, gameCode, playerId)
    /\ redis' = markPlayerDisconnectedRedis(redis, rooms, gameCode, playerId)
    /\ last' = [op |-> "markPlayerDisconnected", ret |-> "ok",
                emits |-> <<>>]
    /\ UNCHANGED <<sockets, timers, disconnectTimeouts, now>>
    /\ UNCHANGED <<roundAnswers, engine>>

RemoveIfStillDisconnected(gameCode, playerId) ==
    /\ LET r == removeIfStillDisconnected(rooms, gameCode, playerId)
       IN  /\ rooms' = r.rooms
           /\ redis' = removeIfStillDisconnectedRedis(redis, rooms, gameCode,
                                                      playerId)
           /\ last' = [op |-> "removeIfStillDisconnected", ret |-> Bool(r.ret),
                       emits |-> <<>>]
    /\ UNCHANGED <<sockets, timers, disconnectTimeouts, now>>
    /\ UNCHANGED <<roundAnswers, engine>>

RemovePlayer(gameCode, playerId) ==
    /\ LET r == removePlayer(rooms, gameCode, playerId)
       IN  /\ rooms' = r.rooms
           /\ redis' = removePlayerRedis(redis, rooms, gameCode, playerId)
           /\ last' = [op |-> "removePlayer", ret |-> Bool(r.ret),
                       emits |-> <<>>]
    /\ UNCHANGED <<sockets, timers, disconnectTimeouts, now>>
    /\ UNCHANGED <<roundAnswers, engine>>

NextRegistry ==
    \/ CreateRoom(Codes, RegistryIds)
    \/ JoinRoom(RegistryIds)
    \/ \E c \in Codes, p \in RegistryIds : UpdateSocketId(c, p, 1)
    \/ \E c \in Codes, p \in RegistryIds : MarkPlayerDisconnected(c, p)
    \/ \E c \in Codes, p \in RegistryIds : RemoveIfStillDisconnected(c, p)
    \/ \E c \in Codes, p \in RegistryIds : RemovePlayer(c, p)
    \/ Cleanup
    \/ Tick

SpecRegistry == Init /\ [][NextRegistry]_vars

(***************************************************************************)
(* Membership of the rooms: more players than a room admits create, join   *)
(* and are removed, while the status of a room changes as a game starts    *)
(* and ends.                                                               *)
(***************************************************************************)
MemberIds == 1..MaxMemberIds

\* 'waiting' of createRoom and the statuses the gateway sets
RoomStatuses == {"waiting", "countdown", "active", "finished"}

UpdateRoomStatus(gameCode, status) ==
    /\ rooms' = updateRoomStatus(rooms, gameCode, status)
    /\ redis' = updateRoomStatusRedis(redis, rooms, gameCode, status)
    /\ last' = [op |-> "updateRoomStatus",
                ret |-> Bool(gameCode \in DOMAIN rooms),
                emits |-> <<>>]
    /\ UNCHANGED <<sockets, timers, disconnectTimeouts, now>>
    /\ UNCHANGED <<roundAnswers, engine>>

NextMembership ==
    \/ CreateRoom(Codes, MemberIds)
    \/ JoinRoom(MemberIds)
    \/ \E c \in Codes, p \in MemberIds : RemovePlayer(c, p)
    \/ \E c \in Codes, status \in RoomStatuses : UpdateRoomStatus(c, status)

SpecMembership == Init /\ [][NextMembership]_vars

(***************************************************************************)
(* The registry and its store: every operation of GameService, with any    *)
(* arguments, as time passes, while the commands of the Redis client       *)
(* succeed.                                                                *)
(***************************************************************************)
\* the game states the gateway hands to updateGameState
GameStates ==
    {null, initializeColorRaceGame(<<>>)}

UpdateGameState(gameCode, gameState) ==
    /\ rooms' = updateGameState(rooms, gameCode, gameState)
    /\ redis' = updateGameStateRedis(redis, rooms, gameCode, gameState)
    /\ last' = [op |-> "updateGameState",
                ret |-> Bool(gameCode \in DOMAIN rooms),
                emits |-> <<>>]
    /\ UNCHANGED <<sockets, timers, disconnectTimeouts, now>>
    /\ UNCHANGED <<roundAnswers, engine>>

UpdatePlayerActivity(gameCode, playerId) ==
    /\ rooms' = updatePlayerActivity(rooms, gameCode, playerId, now)
    /\ last' = [op |-> "updatePlayerActivity", ret |-> "ok", emits |-> <<>>]
    /\ UNCHANGED <<sockets, timers, disconnectTimeouts, now>>
    /\ UNCHANGED <<redis, roundAnswers, engine>>

NextStore ==
    \/ CreateRoom(GatewayCodes, PlayerIds)
    \/ JoinRoom(PlayerIds)
    \/ \E c \in Codes, p \in PlayerIds : UpdateSocketId(c, p, 1)
    \/ \E c \in Codes, p \in PlayerIds : MarkPlayerDisconnected(c, p)
    \/ \E c \in Codes, p \in PlayerIds : RemoveIfStillDisconnected(c, p)
    \/ \E c \in Codes, p \in PlayerIds : RemovePlayer(c, p)
    \/ \E c \in Codes, status \in RoomStatuses : UpdateRoomStatus(c, status)
    \/ \E c \in Codes, gameState \in GameStates : UpdateGameState(c, gameState)
    \/ \E c \in Codes, p \in PlayerIds : UpdatePlayerActivity(c, p)
    \/ Cleanup
    \/ Tick

SpecStore == Init /\ [][NextStore]_vars

(***************************************************************************)
(* The registry while the store comes and goes, and the process restarts.  *)
(***************************************************************************)
\* redis.on('error'): the commands of the client fail from now on
RedisError ==
    /\ redis.up
    /\ redis' = [redis EXCEPT !.up = FALSE]
    /\ last' = [op |-> "redis error", ret |-> "ok", emits |-> <<>>]
    /\ UNCHANGED <<rooms, sockets, timers, disconnectTimeouts, now>>
    /\ UNCHANGED <<roundAnswers, engine>>

\* redis.on('connect'): the commands of the client succeed again
RedisConnect ==
    /\ ~redis.up
    /\ redis' = [redis EXCEPT !.up = TRUE]
    /\ last' = [op |-> "redis connect", ret |-> "ok", emits |-> <<>>]
    /\ UNCHANGED <<rooms, sockets, timers, disconnectTimeouts, now>>
    /\ UNCHANGED <<roundAnswers, engine>>

\* a new process: GameService.initialize loads the rooms the store holds,
\* and none when there is no client or the load fails
Initialize ==
    /\ rooms' = IF redis.up
                THEN [c \in DOMAIN redis.data |->
                         deserializeRoom(redis.data[c])]
                ELSE <<>>
    /\ last' = [op |-> "initialize", ret |-> "ok", emits |-> <<>>]
    /\ UNCHANGED <<sockets, timers, disconnectTimeouts, now>>
    /\ UNCHANGED <<redis, roundAnswers, engine>>

NextOutage ==
    \/ CreateRoom(GatewayCodes, PlayerIds)
    \/ JoinRoom(PlayerIds)
    \/ \E c \in Codes, p \in PlayerIds : UpdateSocketId(c, p, 1)
    \/ \E c \in Codes, p \in PlayerIds : MarkPlayerDisconnected(c, p)
    \/ \E c \in Codes, p \in PlayerIds : RemoveIfStillDisconnected(c, p)
    \/ \E c \in Codes, p \in PlayerIds : RemovePlayer(c, p)
    \/ \E c \in Codes, status \in RoomStatuses : UpdateRoomStatus(c, status)
    \/ \E c \in Codes, gameState \in GameStates : UpdateGameState(c, gameState)
    \/ RedisError
    \/ RedisConnect
    \/ Initialize

SpecOutage == Init /\ [][NextOutage]_vars

(***************************************************************************)
(* The round engine alone: a game of the default difficulty is initialized *)
(* for one or more players, its caller stores submissions, processes the   *)
(* round, eliminates players and advances, in any order.                   *)
(***************************************************************************)
InitializeGame(n, difficulty, decrement) ==
    /\ game.phase = "none"
    /\ decrementMs' = decrement
    /\ game' \in initializeSimonGame([i \in 1..n |-> i], difficulty)
    /\ result' = NoResult
    /\ UNCHANGED gateway

\* the sequences a player can send: the target sequence, the target with
\* its last color changed, and the target cut short
SubmittedSequences(gameState) ==
    LET target == gameState.sequence
        n == Len(target)
    IN  IF n = 0 THEN {target}
        ELSE {target, SubSeq(target, 1, n - 1)}
               \cup {[target EXCEPT ![n] = c] : c \in Palette}

Submit(playerId, timestamp) ==
    /\ game.phase # "none"
    /\ playerId \in DOMAIN game.playerStates
    /\ \E submittedSequence \in SubmittedSequences(game) :
          game' = storeSubmission(game,
                     [playerId |-> playerId,
                      timestamp |-> timestamp,
                      isCorrect |-> validateSequence(game,
                                                     submittedSequence)])
    /\ result' = NoResult
    /\ UNCHANGED <<decrementMs, gateway>>

ProcessRound ==
    /\ game.phase # "none"
    /\ LET processed == processRoundSubmissions(game)
       IN  /\ \A p \in DOMAIN game.scores :
                  processed.gameState.scores[p] <= MaxScore
           /\ game' = processed.gameState
           /\ result' = [op |-> "processRoundSubmissions",
                         submissions |-> game.submissions,
                         roundWinner |-> processed.roundWinner,
                         score |-> processed.score,
                         eliminations |-> processed.eliminations]
    /\ UNCHANGED <<decrementMs, gateway>>

AdvanceRound ==
    /\ game.phase # "none"
    /\ game.round < MaxRound
    /\ \E newSequence \in extendSequence(game.sequence) :
          game' = advanceToNextRound(game, newSequence)
    /\ result' = NoResult
    /\ UNCHANGED <<decrementMs, gateway>>

EliminatePlayer(playerId) ==
    /\ game.phase # "none"
    /\ playerId \in DOMAIN game.playerStates
    /\ game' = eliminatePlayer(game, playerId, game.round)
    /\ result' = NoResult
    /\ UNCHANGED <<decrementMs, gateway>>

UpdatePlayerProgress(playerId) ==
    /\ game.phase # "none"
    /\ playerId \in DOMAIN game.playerStates
    /\ game.playerStates[playerId].currentInputIndex < MaxInputIndex
    /\ game' = updatePlayerProgress(game, playerId)
    /\ result' = NoResult
    /\ UNCHANGED <<decrementMs, gateway>>

\* the gateway opens the input phase once the sequence has been shown
BeginInput ==
    /\ game.phase = "showing_sequence"
    /\ game' = [game EXCEPT !.phase = "input"]
    /\ result' = NoResult
    /\ UNCHANGED <<decrementMs, gateway>>

NextEngine ==
    \/ \E n \in EnginePlayerIds, dec \in DecrementChoices :
          InitializeGame(n, undefined, dec)
    \/ \E p \in EnginePlayerIds, t \in Timestamps : Submit(p, t)
    \/ ProcessRound
    \/ AdvanceRound
    \/ \E p \in EnginePlayerIds : EliminatePlayer(p)

SpecEngine == Init /\ [][NextEngine]_vars

(***************************************************************************)
(* Rounds processed and advanced, with no elimination by the caller.       *)
(***************************************************************************)
NextScoring ==
    \/ \E n \in EnginePlayerIds, dec \in DecrementChoices :
          InitializeGame(n, undefined, dec)
    \/ \E p \in EnginePlayerIds, t \in Timestamps : Submit(p, t)
    \/ ProcessRound
    \/ AdvanceRound

SpecScoring == Init /\ [][NextScoring]_vars

(***************************************************************************)
(* The succession of rounds alone, for every difficulty preset.            *)
(***************************************************************************)
NextRounds ==
    \/ \E n \in EnginePlayerIds, d \in Difficulties \cup {undefined},
          dec \in DecrementChoices :
          InitializeGame(n, d, dec)
    \/ AdvanceRound

SpecRounds == Init /\ [][NextRounds]_vars

(***************************************************************************)
(* Advancing from any state of a game: every difficulty, players part way  *)
(* through the sequence, the input phase open, submissions pending.        *)
(***************************************************************************)
NextAdvance ==
    \/ \E n \in EnginePlayerIds, d \in Difficulties :
          InitializeGame(n, d, MinOf(DecrementChoices))
    \/ BeginInput
    \/ \E p \in EnginePlayerIds : UpdatePlayerProgress(p)
    \/ \E p \in EnginePlayerIds : Submit(p, MinOf(Timestamps))
    \/ ProcessRound
    \/ \E p \in EnginePlayerIds : EliminatePlayer(p)
    \/ AdvanceRound

SpecAdvance == Init /\ [][NextAdvance]_vars

(***************************************************************************)
(* Claims on the registry and the disconnect timers.                       *)
(***************************************************************************)
PendingTimers(ts, gameCode, playerId) ==
    {t \in TimerIds : /\ ts[t].phase # "none"
                      /\ ts[t].gameCode = gameCode
                      /\ ts[t].playerId = playerId}

PlayerOf(rs, gameCode, playerId) ==
    rs[gameCode].players[findIndex(rs[gameCode].players, playerId)]

\* C1: a reconnection of a player of the room, by the cookie or by
\* join_room_socket, leaves the player connected and leaves no disconnect
\* timer of that (room, player) pending.
C1_ReconnectCancelsTimers ==
    [][\A s \in SocketIds, c \in Codes, p \in PlayerIds :
          (/\ HasPlayer(rooms, c, p)
           /\ JoinRoomSocket(s, c, p) \/ Connection(s, TRUE, c, p))
          => /\ PlayerOf(rooms', c, p).connected
             /\ PendingTimers(timers', c, p) = {}]_vars

\* C2: every existing room has exactly one player with isHost = TRUE.
C2_ExactlyOneHost ==
    \A c \in DOMAIN rooms :
        Cardinality({i \in 1..Len(rooms[c].players) :
                        rooms[c].players[i].isHost}) = 1

\* a removal has just succeeded and left a room with a host among several
C2_Witness ==
    /\ last.op \in {"removePlayer", "removeIfStillDisconnected"}
    /\ last.ret = "true"
    /\ \E c \in DOMAIN rooms :
          /\ Len(rooms[c].players) >= 2
          /\ rooms[c].players[1].isHost
          /\ rooms[c].players[1].lastActivity > rooms[c].createdAt

\* C3: every room of the registry has at least one player.
C3_RoomsNonEmpty ==
    \A c \in DOMAIN rooms : Len(rooms[c].players) >= 1

\* the removal of the last player has just deleted the last room
C3_Witness ==
    /\ last.op \in {"removePlayer", "removeIfStillDisconnected"}
    /\ last.ret = "true"
    /\ DOMAIN rooms = {}

\* C4: the disconnect handler changes no room; a timer reaches its removal
\* phase only through its buffer callback, which removes nobody, marks the
\* player disconnected and emits player_disconnected; and a removal callback
\* removes the player, emitting player_left, only when the player is still
\* marked disconnected.
C4_TwoPhaseDeparture ==
    [][/\ last'.op = "disconnect" => rooms' = rooms
       /\ \A t \in TimerIds :
             (timers[t].phase # "removal" /\ timers'[t].phase = "removal")
             => /\ timers[t].phase = "buffer"
                /\ last'.op = "bufferTimeout"
                /\ last'.emits[1].ev = "player_disconnected"
                /\ last'.emits[1].playerId = timers[t].playerId
                /\ DOMAIN rooms' = DOMAIN rooms
                /\ \A c \in DOMAIN rooms :
                      PlayerIdsOf(rooms'[c]) = PlayerIdsOf(rooms[c])
                /\ HasPlayer(rooms, timers[t].gameCode, timers[t].playerId)
                   => ~PlayerOf(rooms', timers[t].gameCode,
                                timers[t].playerId).connected
       /\ last'.op \in {"bufferTimeout", "removalTimeout"}
          => \A c \in DOMAIN rooms : \A p \in PlayerIdsOf(rooms[c]) :
                ~HasPlayer(rooms', c, p)
                => /\ last'.op = "removalTimeout"
                   /\ last'.ret = "true"
                   /\ last'.emits[1] =
                         Emit("player_left", IoTo(sockets, c), p)
                   /\ ~PlayerOf(rooms, c, p).connected
                   /\ \E t \in TimerIds :
                         /\ timers[t] = [phase |-> "removal",
                                         gameCode |-> c, playerId |-> p]
                         /\ timers'[t] = NoTimer]_vars

\* a removal callback has just removed a player
C4_Witness ==
    /\ last.op = "removalTimeout"
    /\ last.ret = "true"

(***************************************************************************)
(* Claims on the round engine.                                             *)
(***************************************************************************)
PlayingIn(gameState) ==
    {p \in DOMAIN gameState.playerStates :
        gameState.playerStates[p].status = "playing"}

IsSolo(gameState) == Cardinality(DOMAIN gameState.playerStates) = 1

\* C5: in every round n reached by initialize and n-1 advances, timeoutMs
\* is max(minTimeoutMs, initialTimeoutMs - (n-1) * timeoutDecrementMs) of the
\* game's difficulty preset
C5_TimeoutFormula ==
    game.phase # "none" =>
        LET constants == getSimonConstantsForDifficulty(game.difficulty)
        IN  game.timeoutMs =
              Max(constants.MIN_TIMEOUT_MS,
                  constants.INITIAL_TIMEOUT_MS
                    - (game.round - 1) * constants.TIMEOUT_DECREMENT_MS)

\* C6: a solo game does not end when it is initialized, nor across a round
\* processed without an incorrect submission, nor across an advance, and it
\* has ended as soon as a round with an incorrect submission of the player
\* is processed
C6_SoloContinues ==
    [][IsSolo(game') =>
          /\ (\E n \in EnginePlayerIds, d \in Difficulties,
                 dec \in DecrementChoices : InitializeGame(n, d, dec))
                => ~shouldGameEnd(game')
          /\ ProcessRound =>
                IF \E i \in DOMAIN game.submissions :
                      ~game.submissions[i].isCorrect
                THEN shouldGameEnd(game')
                ELSE shouldGameEnd(game') = shouldGameEnd(game)
          /\ AdvanceRound => (shouldGameEnd(game') = shouldGameEnd(game))]_vars

\* a solo player won a round, advanced, and then failed one
C6_Witness ==
    /\ IsSolo(game)
    /\ game.round >= 2
    /\ \E p \in DOMAIN game.scores : game.scores[p] >= 1
    /\ result.op = "processRoundSubmissions"
    /\ Len(result.eliminations) = 1
    /\ shouldGameEnd(game)

\* C7: with two or more players in playerStates, shouldGameEnd is true
\* exactly when at most one player has status playing
C7_MultiplayerEnd ==
    Cardinality(DOMAIN game.playerStates) >= 2 =>
        (shouldGameEnd(game) <=> Cardinality(PlayingIn(game)) <= 1)

\* a round of a two-player game left exactly one player playing
C7_Witness ==
    /\ Cardinality(DOMAIN game.playerStates) >= 2
    /\ result.op = "processRoundSubmissions"
    /\ Len(result.eliminations) = 1
    /\ Cardinality(PlayingIn(game)) = 1

\* C8: every advance appends exactly one color to the unchanged previous
\* sequence, and in every state of a game sequence.length = round
C8_PrefixExtension ==
    /\ [](game.phase # "none" => Len(game.sequence) = game.round)
    /\ [][AdvanceRound =>
             /\ Len(game'.sequence) = Len(game.sequence) + 1
             /\ SubSeq(game'.sequence, 1, Len(game.sequence))
                   = game.sequence]_vars

\* a game advanced twice
C8_Witness ==
    /\ game.phase # "none"
    /\ game.round >= 3
    /\ Len(game.sequence) = game.round

\* C9: processing a round eliminates every player whose submission is
\* incorrect (status eliminated, eliminatedAtRound the current round) and
\* lists each of them exactly once with reason wrong_sequence; when all
\* submissions are incorrect there is no round winner and no score changes
C9_EveryIncorrectEliminated ==
    [][ProcessRound =>
          /\ \A i \in DOMAIN game.submissions :
                ~game.submissions[i].isCorrect =>
                   LET p == game.submissions[i].playerId
                       listed == {j \in DOMAIN result'.eliminations :
                                     result'.eliminations[j].playerId = p}
                   IN  /\ game'.playerStates[p].status = "eliminated"
                       /\ game'.playerStates[p].eliminatedAtRound = game.round
                       /\ Cardinality(listed) = 1
                       /\ \A j \in listed :
                             result'.eliminations[j].reason = "wrong_sequence"
          /\ (\A i \in DOMAIN game.submissions :
                 ~game.submissions[i].isCorrect)
                => /\ result'.roundWinner = NoPlayer
                   /\ game'.scores = game.scores]_vars

\* C9, amended: processing a round eliminates every player who is still
\* playing and whose submission is incorrect, and lists exactly those
\* players, once each, with reason wrong_sequence; an incorrect submission
\* under an eliminated id changes neither that player's state nor the list;
\* when all submissions are incorrect there is no round winner and no score
\* changes
C9_PlayingIncorrectEliminated ==
    [][ProcessRound =>
          LET wasPlaying(p) == game.playerStates[p].status = "playing"
              wrong == {game.submissions[i].playerId :
                          i \in {k \in DOMAIN game.submissions :
                                    ~game.submissions[k].isCorrect}}
          IN  /\ \A p \in DOMAIN game.playerStates :
                    LET listed == {j \in DOMAIN result'.eliminations :
                                      result'.eliminations[j].playerId = p}
                    IN  IF p \in wrong /\ wasPlaying(p)
                        THEN /\ game'.playerStates[p].status = "eliminated"
                             /\ game'.playerStates[p].eliminatedAtRound
                                   = game.round
                             /\ Cardinality(listed) = 1
                        ELSE /\ game'.playerStates[p] = game.playerStates[p]
                             /\ listed = {}
              /\ \A j \in DOMAIN result'.eliminations :
                    result'.eliminations[j].reason = "wrong_sequence"
              /\ (\A i \in DOMAIN game.submissions :
                     ~game.submissions[i].isCorrect)
                    => /\ result'.roundWinner = NoPlayer
                       /\ game'.scores = game.scores]_vars

\* a round in which both submissions were incorrect, one of them under the
\* id of a player who was eliminated before
C9_Witness ==
    /\ result.op = "processRoundSubmissions"
    /\ Len(result.submissions) = 2
    /\ \A i \in DOMAIN result.submissions : ~result.submissions[i].isCorrect
    /\ Len(result.eliminations) = 1
    /\ result.roundWinner = NoPlayer
    /\ PlayingIn(game) = {}

\* C10: a round with a correct submission gives +1 to every correct
\* submitter whose timestamp is the least among the correct submissions and
\* +0 to everyone else, and its winner is the first inserted of them
C10_FastestCorrectScores ==
    [][ProcessRound =>
          LET subs == game.submissions
              correct == {i \in DOMAIN subs : subs[i].isCorrect}
          IN  correct # {} =>
                LET least == MinOf({subs[i].timestamp : i \in correct})
                    tied == {i \in correct : subs[i].timestamp = least}
                    winner == subs[MinOf(tied)].playerId
                IN  /\ \A p \in DOMAIN game.scores :
                          game'.scores[p] = game.scores[p]
                            + (IF \E i \in tied : subs[i].playerId = p
                               THEN 1 ELSE 0)
                    /\ result'.roundWinner = winner
                    /\ result'.score = game'.scores[winner]
                    /\ game'.roundWinner = winner]_vars

\* two correct submissions tied, and one slower submission inserted first
C10_Witness ==
    /\ result.op = "processRoundSubmissions"
    /\ Len(result.submissions) = 2
    /\ \A i \in DOMAIN result.submissions : result.submissions[i].isCorrect
    /\ result.submissions[1].timestamp = result.submissions[2].timestamp
    /\ result.roundWinner = result.submissions[1].playerId
    /\ \A p \in DOMAIN game.scores : game.scores[p] >= 1

\* C11: getWinner is the only playing player when exactly one remains, null
\* when two or more remain, and when none remains the first player in map
\* order among those with the highest score
C11_GetWinner ==
    game.phase # "none" =>
        LET playing == PlayingIn(game)
            IsTop(p) == \A q \in DOMAIN game.scores :
                           game.scores[q] <= game.scores[p]
        IN  /\ Cardinality(playing) = 1 => getWinner(game) \in playing
            /\ Cardinality(playing) >= 2 => getWinner(game) = NoPlayer
            /\ Cardinality(playing) = 0 =>
                  \E i \in DOMAIN game.order :
                      /\ getWinner(game) = game.order[i]
                      /\ IsTop(game.order[i])
                      /\ \A j \in 1..(i - 1) : ~IsTop(game.order[j])

\* every player of a game of two is eliminated, with equal positive scores
C11_Witness ==
    /\ Cardinality(DOMAIN game.playerStates) >= 2
    /\ PlayingIn(game) = {}
    /\ \A p \in DOMAIN game.scores : game.scores[p] >= 1

\* C12: an advance increments round by exactly 1, resets the input index
\* of every player still playing, empties submissions, clears roundWinner
\* and sets phase to showing_sequence, and leaves every status, the scores
\* and the difficulty unchanged
C12_AdvanceFrame ==
    [][AdvanceRound =>
          /\ game'.round = game.round + 1
          /\ \A p \in PlayingIn(game) :
                game'.playerStates[p].currentInputIndex = 0
          /\ game'.submissions = <<>>
          /\ game'.roundWinner = NoPlayer
          /\ game'.phase = "showing_sequence"
          /\ DOMAIN game'.playerStates = DOMAIN game.playerStates
          /\ \A p \in DOMAIN game.playerStates :
                /\ game'.playerStates[p].status = game.playerStates[p].status
                /\ game'.playerStates[p].eliminatedAtRound
                      = game.playerStates[p].eliminatedAtRound
          /\ game'.scores = game.scores
          /\ game'.difficulty = game.difficulty]_vars

\* a second advance, of a game in which a point was scored and a player
\* was eliminated
C12_Witness ==
    /\ game.round >= 3
    /\ game.phase = "showing_sequence"
    /\ game.submissions = <<>>
    /\ \E p \in DOMAIN game.scores : game.scores[p] >= 1
    /\ \E p \in DOMAIN game.playerStates :
          game.playerStates[p].status = "eliminated"
    /\ PlayingIn(game) # {}
    /\ \A p \in DOMAIN game.playerStates :
          game.playerStates[p].currentInputIndex = 0

\* C13: calculateTimeoutMs(n) = 1000 * (15 + 2n) for every sequence length
\* n >= 1, and a freshly initialized game has timeoutMs = 17000
C13_TimeoutOfLength ==
    /\ [](game.phase # "none" =>
             LET n == Len(game.sequence)
             IN  n >= 1 /\ calculateTimeoutMs(n) = 1000 * (15 + 2 * n))
    /\ [][\A k \in EnginePlayerIds, d \in Difficulties, dec \in DecrementChoices :
             InitializeGame(k, d, dec) => game'.timeoutMs = 17000]_vars

\* a game of another difficulty than the default one, just initialized
C13_Witness ==
    /\ game.round = 1
    /\ game.difficulty \in Difficulties \ {DefaultDifficulty}
    /\ game.timeoutMs = 17000

\* C14: initialize, for any non-empty player list, yields round 1, a
\* sequence of exactly one color, phase showing_sequence, empty submissions,
\* and for every listed player and no one else status playing,
\* currentInputIndex 0 and score 0; the difficulty is medium when the caller
\* does not specify one
C14_InitialState ==
    [][\A n \in EnginePlayerIds, d \in Difficulties \cup {undefined},
          dec \in DecrementChoices :
          InitializeGame(n, d, dec) =>
              /\ game'.round = 1
              /\ Len(game'.sequence) = 1
              /\ game'.sequence[1] \in Range(COLORS)
              /\ game'.phase = "showing_sequence"
              /\ game'.submissions = <<>>
              /\ DOMAIN game'.playerStates = 1..n
              /\ DOMAIN game'.scores = 1..n
              /\ \A p \in 1..n :
                    /\ game'.playerStates[p].status = "playing"
                    /\ game'.playerStates[p].currentInputIndex = 0
                    /\ game'.scores[p] = 0
              /\ game'.difficulty = IF d = undefined THEN "medium" ELSE d]_vars

\* a game of more than one player, just initialized
C14_Witness ==
    /\ game.round = 1
    /\ Cardinality(DOMAIN game.playerStates) >= 2
    /\ game.difficulty = "medium"
    /\ game.phase = "showing_sequence"

\* C15: joinRoom fails with 'Room not found' when the code is unknown, with
\* 'Game already in progress' when the room's status is not waiting, and
\* with 'Room is full' when the room already has 4 players (the conditions
\* taken in this order); in every failing case the registry is unchanged,
\* and on success exactly one new non-host player is appended at the end of
\* the player list
C15_JoinRoomOutcome ==
    [][\A c \in Codes :
          LET r == joinRoom(rooms, c, uuidv4(MemberIds), now)
              n == Len(rooms[c].players)
          IN  (JoinRoom(MemberIds) /\ rooms' = r.rooms /\ last'.ret = r.ret) =>
                 IF c \notin DOMAIN rooms
                 THEN last'.ret = "Room not found" /\ rooms' = rooms
                 ELSE IF rooms[c].status # "waiting"
                 THEN last'.ret = "Game already in progress" /\ rooms' = rooms
                 ELSE IF n >= 4
                 THEN last'.ret = "Room is full" /\ rooms' = rooms
                 ELSE /\ last'.ret = "ok"
                      /\ DOMAIN rooms' = DOMAIN rooms
                      /\ \A c2 \in DOMAIN rooms \ {c} : rooms'[c2] = rooms[c2]
                      /\ rooms'[c].status = rooms[c].status
                      /\ Len(rooms'[c].players) = n + 1
                      /\ SubSeq(rooms'[c].players, 1, n) = rooms[c].players
                      /\ ~rooms'[c].players[n + 1].isHost
                      /\ rooms'[c].players[n + 1].id \notin UsedIds]_vars

\* a join refused by a full room
C15_Witness ==
    /\ last.op = "joinRoom"
    /\ last.ret = "Room is full"
    /\ \E c \in DOMAIN rooms :
          /\ Len(rooms[c].players) = 4
          /\ rooms[c].status = "waiting"

\* C18: no room ever holds more than 4 players
C18_AtMostFourPlayers ==
    \A c \in DOMAIN rooms : Len(rooms[c].players) <= 4

\* the fourth player has just joined a room
C18_Witness ==
    /\ last.op = "joinRoom"
    /\ last.ret = "ok"
    /\ \E c \in DOMAIN rooms : Len(rooms[c].players) = 4

\* C16: when removePlayer removes the host of a room that still has other
\* players, the new host is the remaining player who joined earliest (the
\* first in list order) and no other player's isHost changes; when the
\* removed player is not the host, the host is unchanged
C16_HostSuccession ==
    [][\A c \in Codes, p \in RegistryIds :
          (/\ RemovePlayer(c, p)
           /\ HasPlayer(rooms, c, p)
           /\ Len(rooms[c].players) >= 2) =>
              LET before == rooms[c].players
                  removed == before[findIndex(before, p)]
                  stay == [i \in 1..(Len(before) - 1) |->
                              IF i < findIndex(before, p)
                              THEN before[i] ELSE before[i + 1]]
                  after == rooms'[c].players
              IN  /\ c \in DOMAIN rooms'
                  /\ Len(after) = Len(stay)
                  /\ \A i \in DOMAIN stay : after[i].id = stay[i].id
                  /\ IF removed.isHost
                     THEN /\ after[1].isHost
                          /\ \A i \in 2..Len(stay) :
                                after[i].isHost = stay[i].isHost
                     ELSE \A i \in DOMAIN stay :
                             after[i].isHost = stay[i].isHost]_vars

\* the host of a room of three has just been removed: a player who joined
\* after the room was created is host, the one who joined after them is not
C16_Witness ==
    /\ last.op = "removePlayer"
    /\ last.ret = "true"
    /\ \E c \in DOMAIN rooms :
          /\ Len(rooms[c].players) = 2
          /\ rooms[c].players[1].isHost
          /\ ~rooms[c].players[2].isHost
          /\ rooms[c].players[1].lastActivity > rooms[c].createdAt
          /\ rooms[c].players[2].lastActivity > rooms[c].players[1].lastActivity

\* C17: removePlayer is idempotent: called for a player already absent from
\* the room, or for a room that no longer exists, it returns false and
\* changes nothing, so a second call after any removal transfers no host
\* and deletes no room
C17_RemoveIdempotent ==
    [][\A c \in Codes, p \in MemberIds :
          RemovePlayer(c, p) =>
              /\ ~HasPlayer(rooms, c, p) =>
                    /\ last'.ret = "false"
                    /\ rooms' = rooms
              /\ ~HasPlayer(rooms', c, p)
              /\ removePlayer(rooms', c, p) = [rooms |-> rooms', ret |-> FALSE]]_vars

\* a removal has just been refused while the room of the call exists with
\* a host and other players, and another code has no room
C17_Witness ==
    /\ last.op = "removePlayer"
    /\ last.ret = "false"
    /\ \E c \in DOMAIN rooms : Len(rooms[c].players) >= 3
    /\ DOMAIN rooms # Codes

\* C19: cleanupDeadRooms deletes a room if and only if the room is older
\* than the max age, or all of its players are disconnected and the oldest
\* lastActivity among them is older than the grace period; a room within
\* max age that has at least one connected player is never deleted by the
\* sweep; the returned number equals the number of rooms deleted
C19_SweepVerdict ==
    [][Cleanup =>
          LET Members(c) == {rooms[c].players[i] : i \in 1..Len(rooms[c].players)}
              TooOld(c) == now - rooms[c].createdAt > ROOM_MAX_AGE_MS
              Deserted(c) ==
                  /\ \A m \in Members(c) : ~m.connected
                  /\ \E m \in Members(c) :
                        /\ \A m2 \in Members(c) : m.lastActivity <= m2.lastActivity
                        /\ now - m.lastActivity > DISCONNECT_GRACE_MS
              deleted == DOMAIN rooms \ DOMAIN rooms'
          IN  /\ DOMAIN rooms' \subseteq DOMAIN rooms
              /\ \A c \in DOMAIN rooms :
                    /\ c \in deleted <=> (TooOld(c) \/ Deserted(c))
                    /\ (~TooOld(c) /\ \E m \in Members(c) : m.connected)
                          => c \notin deleted
                    /\ c \notin deleted => rooms'[c] = rooms[c]
              /\ last'.cleaned = Cardinality(deleted)]_vars

\* a sweep has just deleted one room and kept another, which is within max
\* age and has a connected player next to a disconnected one
C19_Witness ==
    /\ last.op = "cleanupDeadRooms"
    /\ last.cleaned = 1
    /\ now > 0
    /\ \E c \in DOMAIN rooms :
          /\ now - rooms[c].createdAt <= ROOM_MAX_AGE_MS
          /\ \E i, j \in 1..Len(rooms[c].players) :
                /\ rooms[c].players[i].connected
                /\ ~rooms[c].players[j].connected

\* C20: join_room_socket for an unknown room code yields the error 'Room
\* not found' and for a player id not in the room yields 'Player not in
\* room'; in both cases the connection is not bound and no room or player
\* state changes.  On success the player gets connected = true with
\* socketId equal to the joining connection's id, and the joining
\* connection receives room_state with the current room snapshot
C20_JoinRoomSocketOutcome ==
    [][\A s \in SocketIds, c \in Codes, p \in PlayerIds :
          JoinRoomSocket(s, c, p) =>
              IF c \notin DOMAIN rooms \/ ~HasPlayer(rooms, c, p)
              THEN /\ last'.ret = IF c \notin DOMAIN rooms
                                  THEN "Room not found"
                                  ELSE "Player not in room"
                   /\ Len(last'.emits) = 1
                   /\ last'.emits[1].ev = "error"
                   /\ last'.emits[1].to = {s}
                   /\ sockets' = sockets
                   /\ rooms' = rooms
              ELSE /\ PlayerOf(rooms', c, p).connected
                   /\ PlayerOf(rooms', c, p).socketId = s
                   /\ sockets'[s].playerId = p
                   /\ sockets'[s].gameCode = c
                   /\ \E i \in DOMAIN last'.emits :
                         /\ last'.emits[i].ev = "room_state"
                         /\ last'.emits[i].to = {s}
                         /\ last'.emits[i].room = rooms'[c]
                   /\ \A i \in DOMAIN last'.emits :
                         last'.emits[i].ev # "error"]_vars

\* a connection has just joined a room of two and received its snapshot
C20_Witness ==
    /\ last.op = "join_room_socket"
    /\ last.ret = "ok"
    /\ last.emits[2].ev = "room_state"
    /\ Len(last.emits[2].room.players) >= 2
    /\ \E i \in DOMAIN last.emits[2].room.players :
          /\ last.emits[2].room.players[i].connected
          /\ last.emits[2].room.players[i].socketId \in last.emits[2].to

\* C21: start_game moves a room from waiting to countdown only when the
\* named player is the room's current host and the room's status is
\* waiting; a non-host gets the error 'Only host can start the game', a room
\* not in waiting gets 'Game already started', an unknown room gets 'Room
\* not found', and in every rejected case the room's status and game state
\* are unchanged and no countdown is started
C21_StartGameOutcome ==
    /\ [][\A s \in SocketIds, c \in Codes, p \in PlayerIds :
             StartGame(s, c, p) =>
                 LET known == c \in DOMAIN rooms
                     host == known /\ \E i \in DOMAIN rooms[c].players :
                                        /\ rooms[c].players[i].id = p
                                        /\ rooms[c].players[i].isHost
                     waiting == known /\ rooms[c].status = "waiting"
                     counting(ts) == {t \in TimerIds : ts[t].phase = "countdown"}
                 IN  IF host /\ waiting
                     THEN /\ rooms'[c].status = "countdown"
                          /\ last'.emits = <<>>
                          /\ \E t \in counting(timers') \ counting(timers) :
                                timers'[t].gameCode = c
                     ELSE /\ last'.ret = IF ~known THEN "Room not found"
                                         ELSE IF ~host
                                         THEN "Only host can start the game"
                                         ELSE "Game already started"
                          /\ Len(last'.emits) = 1
                          /\ last'.emits[1].ev = "error"
                          /\ last'.emits[1].to = {s}
                          /\ rooms' = rooms
                          /\ counting(timers') = counting(timers)]_vars
    /\ [][\A c \in DOMAIN rooms \cap DOMAIN rooms' :
             (rooms[c].status = "waiting" /\ rooms'[c].status = "countdown") =>
                 \E s \in SocketIds, i \in DOMAIN rooms[c].players :
                     /\ rooms[c].players[i].isHost
                     /\ StartGame(s, c, rooms[c].players[i].id)]_vars

\* a guest's start_game has just been refused in a waiting room of two
C21_Witness ==
    /\ last.op = "start_game"
    /\ last.ret = "Only host can start the game"
    /\ \E c \in DOMAIN rooms :
          /\ rooms[c].status = "waiting"
          /\ Len(rooms[c].players) = 2
          /\ last.emits[1].playerId \in PlayerIdsOf(rooms[c])

\* the live connections bound to a player of the room
BoundTo(socks, gameCode) ==
    {s \in SocketIds : socks[s].live /\ socks[s].gameCode = gameCode}

CountdownsOf(ts, gameCode) ==
    {t \in TimerIds : ts[t].phase = "countdown" /\ ts[t].gameCode = gameCode}

C23_RestartResetsRoom ==
    [][\A s \in SocketIds, c \in Codes, p \in PlayerIds :
          RestartGame(s, c, p) =>
              IF c \notin DOMAIN rooms
              THEN /\ last'.ret = "Room not found"
                   /\ \E i \in DOMAIN last'.emits :
                         /\ last'.emits[i].ev = "error"
                         /\ last'.emits[i].to = {s}
              ELSE isHostOf(rooms[c], p) =>
                      /\ rooms'[c].status = "waiting"
                      /\ rooms'[c].gameState = null
                      /\ rooms'[c].players = rooms[c].players
                      /\ \E i \in DOMAIN last'.emits :
                            /\ last'.emits[i].ev = "game_restarted"
                            /\ BoundTo(sockets, c) \subseteq last'.emits[i].to
                      /\ \E i \in DOMAIN last'.emits :
                            /\ last'.emits[i].ev = "room_state_update"
                            /\ BoundTo(sockets, c) \subseteq last'.emits[i].to
                            /\ last'.emits[i].room.status = "waiting"]_vars

\* C24: after a player binds with join_room_socket or leaves with
\* leave_room, every other connection bound to that room receives a
\* room_state_update carrying the full current player list and status of
\* the room
C24_RoomStateUpdate ==
    [][\A s \in SocketIds, c \in Codes, p \in PlayerIds :
          LET others == BoundTo(sockets', c) \ {s}
          IN  (/\ \/ JoinRoomSocket(s, c, p) /\ last'.ret = "ok"
                  \/ LeaveRoom(s, c, p) /\ last'.ret = "true"
               /\ others # {}
               /\ c \in DOMAIN rooms') =>
                  \E i \in DOMAIN last'.emits :
                      /\ last'.emits[i].ev = "room_state_update"
                      /\ others \subseteq last'.emits[i].to
                      /\ last'.emits[i].room.players = rooms'[c].players
                      /\ last'.emits[i].room.status = rooms'[c].status]_vars

\* C25: when a connection binds with join_room_socket, player_joined is
\* delivered to every other connection bound to the room and never to the
\* joining connection itself; when a player leaves with leave_room, the
\* remaining bound connections receive player_left with that player's id
C25_JoinedAndLeft ==
    [][\A s \in SocketIds, c \in Codes, p \in PlayerIds :
          /\ (JoinRoomSocket(s, c, p) /\ last'.ret = "ok") =>
                /\ \E i \in DOMAIN last'.emits :
                      /\ last'.emits[i].ev = "player_joined"
                      /\ last'.emits[i].playerId = p
                      /\ BoundTo(sockets', c) \ {s} \subseteq last'.emits[i].to
                /\ \A i \in DOMAIN last'.emits :
                      last'.emits[i].ev = "player_joined" =>
                          s \notin last'.emits[i].to
          /\ (LeaveRoom(s, c, p) /\ last'.ret = "true") =>
                \E i \in DOMAIN last'.emits :
                    /\ last'.emits[i].ev = "player_left"
                    /\ last'.emits[i].playerId = p
                    /\ BoundTo(sockets', c) \subseteq last'.emits[i].to]_vars

\* a second connection binds to a room while another connection is bound
\* to it, and that other connection is told
C25_Witness ==
    /\ last.op = "join_room_socket"
    /\ last.ret = "ok"
    /\ last.emits[1].ev = "player_joined"
    /\ last.emits[1].to # {}
    /\ \E c \in DOMAIN rooms : Cardinality(BoundTo(sockets, c)) = 2

\* C26: after the grace window has elapsed with no reconnection the player
\* no longer exists in the room, and a later join_room_socket for that
\* (room, player) is rejected with 'Player not in room' (or 'Room not found'
\* if the room was deleted) instead of restoring the player.  The grace
\* window has elapsed when the removal callback runs, and no reconnection
\* has happened when the player's record is still marked disconnected.
C26_NoReturnAfterGrace ==
    [][/\ \A t \in TimerIds :
             LET c == timers[t].gameCode
                 p == timers[t].playerId
             IN  (/\ RemovalTimeout(t)
                  /\ c \in DOMAIN rooms
                  /\ p \in PlayerIdsOf(rooms[c])
                  /\ ~PlayerOf(rooms, c, p).connected) =>
                     \/ c \notin DOMAIN rooms'
                     \/ p \notin PlayerIdsOf(rooms'[c])
       /\ \A s \in SocketIds, c \in Codes, p \in PlayerIds :
             (/\ JoinRoomSocket(s, c, p)
              /\ \/ c \notin DOMAIN rooms
                 \/ p \notin PlayerIdsOf(rooms[c])) =>
                 /\ rooms' = rooms
                 /\ sockets' = sockets
                 /\ last'.emits = <<Emit("error", {s}, p)>>
                 /\ last'.ret = IF c \in DOMAIN rooms
                                THEN "Player not in room"
                                ELSE "Room not found"]_vars

\* the removal callback has removed a player from a room that lives on, and
\* nothing refers to that player any more
C26_Witness ==
    /\ last.op = "removalTimeout"
    /\ last.ret = "true"
    /\ \E c \in DOMAIN rooms :
          /\ last.emits[1].playerId \notin PlayerIdsOf(rooms[c])
          /\ \A s \in SocketIds : sockets[s].playerId # last.emits[1].playerId

\* a round of a running game: the room is active and its game is in round n
RoundOpen(c, n) ==
    /\ c \in DOMAIN rooms
    /\ rooms[c].status = "active"
    /\ rooms[c].gameState.phase = "playing"
    /\ rooms[c].gameState.round = n

\* C27: in an active game every round that has started is eventually
\* processed, under fair scheduling of timers: a player who never submits
\* does not leave the round unprocessed forever
C27_RoundsProcessed ==
    \A c \in Codes, n \in 1..MaxRaceRound :
        RoundOpen(c, n) ~> ~RoundOpen(c, n)

\* C28: a submit is accepted (stored as the player's submission) only while
\* the round is open for input and the submitting player is one of the
\* room's playing players; a submit in any other phase or from any other
\* player leaves the submissions, and the room, unchanged
C28_SubmitGated ==
    [][\A s \in SocketIds, c \in Codes, p \in PlayerIds, color \in Palette :
          (/\ SubmitAnswer(s, c, p, color)
           /\ ~(/\ RoundOpen(c, rooms[c].gameState.round)
                /\ p \in PlayerIdsOf(rooms[c]))) =>
              /\ roundAnswers' = roundAnswers
              /\ rooms' = rooms]_vars

\* C29: a live connection is bound to at most one (roomCode, playerId) pair
\* at any time: after a connection issues join_room_socket for a second
\* room, it no longer receives broadcasts of the first room
C29_OneBinding ==
    [][\A s \in SocketIds, c \in Codes, p \in PlayerIds :
          (JoinRoomSocket(s, c, p) /\ last'.ret = "ok") =>
              \A c2 \in Codes \ {c} : s \notin IoTo(sockets', c2)]_vars

\* C30: a leave_room or start_game intent changes room state only when the
\* issuing connection is bound to the (room, player) pair named in the
\* event: a connection that is unbound, or bound to a different player,
\* cannot remove another player from a room
C30_BoundIntentsOnly ==
    [][\A s \in SocketIds, c \in Codes, p \in PlayerIds :
          (/\ LeaveRoom(s, c, p) \/ StartGame(s, c, p)
           /\ ~(sockets[s].gameCode = c /\ sockets[s].playerId = p)) =>
              rooms' = rooms]_vars

WithoutActivity(data) ==
    [data EXCEPT !.players =
        [i \in DOMAIN @ |-> [@[i] EXCEPT !.lastActivity = toJSON(0)]]]

C32_StoreFailureTolerated ==
    /\ [](~redis.thrown)
    /\ [][(~redis.up /\ ~redis'.up) =>
             /\ redis'.data = redis.data
             /\ last'.emits = <<>>
             /\ last'.op = "createRoom" =>
                   /\ last'.ret \in DOMAIN rooms' \ DOMAIN rooms
                   /\ rooms' = createRoom(rooms, last'.ret,
                                          rooms'[last'.ret].players[1].id, now)
             /\ last'.op = "joinRoom" =>
                   \E c \in Codes, p \in PlayerIds :
                      /\ rooms' = joinRoom(rooms, c, p, now).rooms
                      /\ last'.ret = joinRoom(rooms, c, p, now).ret
             /\ last'.op = "removePlayer" =>
                   \E c \in Codes, p \in PlayerIds :
                      /\ rooms' = removePlayer(rooms, c, p).rooms
                      /\ last'.ret = Bool(removePlayer(rooms, c, p).ret)
             /\ last'.op = "updateSocketId" =>
                   \E c \in Codes, p \in PlayerIds :
                      /\ rooms' = updateSocketId(rooms, c, p, 1, now)
                      /\ last'.ret = Bool(HasPlayer(rooms, c, p))
             /\ last'.op = "markPlayerDisconnected" =>
                   \E c \in Codes, p \in PlayerIds :
                      rooms' = markPlayerDisconnected(rooms, c, p)
             /\ last'.op = "updateRoomStatus" =>
                   \E c \in Codes, status \in RoomStatuses :
                      rooms' = updateRoomStatus(rooms, c, status)
             /\ last'.op = "updateGameState" =>
                   \E c \in Codes, gameState \in GameStates :
                      rooms' = updateGameState(rooms, c, gameState)]_vars

\* a player has joined while the store was down: the room in memory has
\* the player, the stored snapshot has not
C32_Witness ==
    /\ ~redis.up
    /\ last.op = "joinRoom"
    /\ last.ret = "ok"
    /\ \E c \in DOMAIN rooms \cap DOMAIN redis.data :
          /\ Len(rooms[c].players) = 2
          /\ Len(redis.data[c].players) = 1

C34_AllPlayingSubmitted ==
    (game.phase # "none" /\ haveAllPlayersSubmitted(game)) =>
        /\ \E p \in DOMAIN game.playerStates :
              game.playerStates[p].status = "playing"
        /\ \A p \in DOMAIN game.playerStates :
              game.playerStates[p].status = "playing" =>
                  \E i \in DOMAIN game.submissions :
                      game.submissions[i].playerId = p

(***************************************************************************)
(* Claims on the disconnect supervisor, the registry and the engine.       *)
(***************************************************************************)
\* the live connections bound to the player of the room
BoundSockets(socks, gameCode, playerId) ==
    {s \in SocketIds : /\ socks[s].live
                       /\ socks[s].gameCode = gameCode
                       /\ socks[s].playerId = playerId}

\* C35: the disconnect supervisor marks a player connected = false or
\* removes them only if no live connection is bound to that player: a timer
\* callback that runs while a connection is bound to the (room, player)
\* leaves the player in the room and leaves their connected flag as it was
C35_BoundPlayersKept ==
    [][\A c \in Codes, p \in PlayerIds :
          (/\ HasPlayer(rooms, c, p)
           /\ BoundSockets(sockets, c, p) # {}
           /\ \E t \in TimerIds : BufferTimeout(t) \/ RemovalTimeout(t))
          => /\ HasPlayer(rooms', c, p)
             /\ PlayerOf(rooms', c, p).connected
                   = PlayerOf(rooms, c, p).connected]_vars

\* C36: at any time at most one disconnect timer is pending per
\* (room, player), and every pending disconnect timer is the one recorded
\* in disconnectTimeouts under that key
C36_OneRecordedTimer ==
    \A c \in Codes, p \in PlayerIds :
        /\ Cardinality(PendingTimers(timers, c, p)) <= 1
        /\ \A t \in PendingTimers(timers, c, p) :
              /\ <<c, p>> \in DOMAIN disconnectTimeouts
              /\ disconnectTimeouts[<<c, p>>] = t

\* C37: in every reachable registry state, for every player, connected is
\* true if and only if socketId is non-null
C37_ConnectedIffSocket ==
    \A c \in DOMAIN rooms : \A i \in DOMAIN rooms[c].players :
        rooms[c].players[i].connected
            <=> rooms[c].players[i].socketId # NoSocket

\* updateSocketId has just run and a room holds one player bound to a
\* socket and another player bound to none
C37_Witness ==
    /\ last.op = "updateSocketId"
    /\ \E c \in DOMAIN rooms : \E i, j \in DOMAIN rooms[c].players :
          /\ rooms[c].players[i].connected
          /\ rooms[c].players[i].socketId # NoSocket
          /\ ~rooms[c].players[j].connected
          /\ rooms[c].players[j].socketId = NoSocket

\* the ids of the players of a room, in the order of the list
PlayerIdSeq(room) ==
    [i \in DOMAIN room.players |-> room.players[i].id]

\* newIds is oldIds with some entries taken out
IsRemovalOf(newIds, oldIds) ==
    LET Kept(id) == id \in Range(newIds)
    IN  newIds = SelectSeq(oldIds, Kept)

C39_EliminationPermanent ==
    [][(ProcessRound \/ AdvanceRound) =>
          \A p \in DOMAIN game.playerStates :
              game.playerStates[p].status = "eliminated" =>
                  /\ p \in DOMAIN game'.playerStates
                  /\ game'.playerStates[p].status = "eliminated"
                  /\ game'.playerStates[p].eliminatedAtRound
                        = game.playerStates[p].eliminatedAtRound]_vars

\* a round has been processed that held an incorrect submission under the
\* id of a player eliminated in an earlier round
C39_Witness ==
    /\ result.op = "processRoundSubmissions"
    /\ \E i \in DOMAIN result.submissions :
          LET p == result.submissions[i].playerId
          IN  /\ ~result.submissions[i].isCorrect
              /\ game.playerStates[p].status = "eliminated"
              /\ game.playerStates[p].eliminatedAtRound < game.round

\* C40: across any sequence of processRoundSubmissions and advanceRound,
\* every player's score is a non-negative integer that never decreases and
\* grows by at most 1 per processed round, and a player eliminated in a
\* round gains no point in that round
C40_ScoresMonotone ==
    /\ [](game.phase # "none" =>
            \A p \in DOMAIN game.scores : game.scores[p] \in Nat)
    /\ [][AdvanceRound => game'.scores = game.scores]_vars
    /\ [][ProcessRound =>
            \A p \in DOMAIN game.scores :
                /\ game'.scores[p] - game.scores[p] \in {0, 1}
                /\ (/\ game'.playerStates[p].status = "eliminated"
                    /\ game'.playerStates[p].eliminatedAtRound = game.round)
                   => game'.scores[p] = game.scores[p]]_vars

====
